---- MODULE Spec2Model ----
(***************************************************************************)
(* A model of the mini SQL engine (python): parser, executor, table        *)
(* manager (BTreeStorage), commit log (LSMTreeStorage) and pager.          *)
(*                                                                         *)
(* Representation.                                                         *)
(*   - a python value is a pair <<type, text>>: None is <<"None", "">>,    *)
(*     the int 1 is <<"int", "1">>, the str 'ann' is <<"str", "ann">>;     *)
(*   - a python dict whose order is observable (a row, the assignments of  *)
(*     an UPDATE) is a sequence of <<key, value>> pairs with unique keys,  *)
(*     in insertion order;                                                 *)
(*   - row dicts are objects: `heap` maps an object id to the dict, and    *)
(*     tables, indexes and INSERT log entries hold object ids, so that an  *)
(*     in-place change of a row is seen through every reference to it;     *)
(*   - a byte string is a sequence of tokens, one token per JSON lexeme    *)
(*     (a pair <<class, text>>), ZeroByte being the pager's padding;       *)
(*   - a query text is the sequence of its lexemes (words, literals and    *)
(*     the punctuation "(", ")", ",", "=", ".", ";").                      *)
(***************************************************************************)
EXTENDS Integers, Sequences, FiniteSets, TLC

\* Bounds of the model (none of them is a constant of the program): the rows
\* of a table and the pending log entries, per specification.
MaxRows == 1
MaxPending == 1
JoinMaxRows == 2
JoinMaxPending == 1
LogMaxRows == 2
LogMaxPending == 3
UsersMaxRows == 2
UsersMaxPending == 3
ListMaxRows == 2
ListMaxPending == 2
TraceMaxRows == 1
TraceMaxPending == 11
TraceVaried == 2
DataMaxRows == 2
DataMaxPending == 1
\* the payloads and the page sizes of the runs of the Pager alone
MaxBlob == 4
MaxPageSize == 3
\* The executor builds every Pager with page_size=4096 bytes; the model counts
\* a page in tokens and scales it down so that a payload spans several pages.
PageSize == 4

Min(a, b) == IF a < b THEN a ELSE b

Range(s) == {s[i] : i \in 1..Len(s)}

\* Op applied to the value v: a value computed once and used under a name
With(v, Op(_)) == Op(v)

RECURSIVE Flatten(_)
Flatten(ss) == IF ss = <<>> THEN <<>> ELSE Head(ss) \o Flatten(Tail(ss))

\* ------------------------------------------------------------------ values

PyNone == <<"None", "">>
IntV(s) == <<"int", s>>
StrV(s) == <<"str", s>>
ListV(s) == <<"list", s>>

\* hash(value) returns: a list is unhashable
Hashable(v) == v[1] # "list"

\* repr(value): a string in quotes
PyStr_repr(v) ==
    IF v = PyNone THEN "None" ELSE IF v[1] = "str" THEN "'" \o v[2] \o "'" ELSE v[2]

\* str(value), as _format_rows renders a cell
PyStr(v) == IF v = PyNone THEN "None" ELSE v[2]

\* ------------------------------------------------------------------ dicts

DHas(d, k) == \E i \in 1..Len(d) : d[i][1] = k

\* d.get(k): None when the key is absent
DGet(d, k) == IF DHas(d, k) THEN d[CHOOSE i \in 1..Len(d) : d[i][1] = k][2] ELSE PyNone

\* d[k] = v: an existing key keeps its place, a new key goes last
DSet(d, k, v) ==
    IF DHas(d, k)
    THEN [i \in 1..Len(d) |-> IF d[i][1] = k THEN <<k, v>> ELSE d[i]]
    ELSE Append(d, <<k, v>>)

DKeys(d) == [i \in 1..Len(d) |-> d[i][1]]

\* d = a in place of d.update(a)
DUpdate_replacing(d, a) == a

\* d.update(a)
DUpdate(d, a) ==
    LET f[i \in 0..Len(a)] == IF i = 0 THEN d ELSE DSet(f[i - 1], a[i][1], a[i][2])
    IN  f[Len(a)]

\* a row with None for the columns that have no value
DZip_padding(columns, values) ==
    [i \in 1..Len(columns) |->
        <<columns[i], IF i <= Len(values) THEN values[i] ELSE <<"None", "">>>>]

\* {col: val for col, val in zip(columns, values)}
DZip(columns, values) ==
    LET n == Min(Len(columns), Len(values))
        f[i \in 0..n] == IF i = 0 THEN <<>> ELSE DSet(f[i - 1], columns[i], values[i])
    IN  f[n]

\* ------------------------------------------------------------------ pager

MAGIC == "MDB1"

ZeroByte == <<"0", "">>

\* A file is absent, or holds a header (none when it is shorter than
\* HEADER_SIZE bytes: header is then the empty sequence) and a body.
NoFile == [exists |-> FALSE, header |-> <<>>, body |-> <<>>]

\* data.ljust(n, b"\x00")
LJust(data, n) ==
    IF n > Len(data) THEN data \o [i \in 1..(n - Len(data)) |-> ZeroByte] ELSE data

\* the slices buffer[i : i + size] for i in range(0, len(buffer), size)
Slices(buffer, size) ==
    [j \in 1..((Len(buffer) + size - 1) \div size) |->
        SubSeq(buffer, (j - 1) * size + 1, Min(j * size, Len(buffer)))]

\* Pager._flush: the file after the pages are written out
Pager_flush(pg, file) ==
    IF pg.pages = <<>>
    THEN IF file.exists THEN [exists |-> TRUE, header |-> <<>>, body |-> <<>>] ELSE file
    ELSE [exists |-> TRUE,
          header |-> <<[magic |-> MAGIC, page_size |-> pg.page_size, length |-> pg.length]>>,
          body |-> Flatten(pg.pages)]

\* Pager.write_blob: the pager and the file after the payload is stored
Pager_write_blob(pg, file, data) ==
    With([pg EXCEPT !.length = Len(data),
                    !.pages = IF data = <<>> THEN <<>>
                              ELSE Slices(LJust(data,
                                       ((Len(data) + pg.page_size - 1) \div pg.page_size)
                                           * pg.page_size),
                                   pg.page_size)],
         LAMBDA np : [pager |-> np, file |-> Pager_flush(np, file)])

\* read_blob without the cut to the recorded length
Pager_read_blob_untruncated(pg) ==
    IF pg.pages = <<>> \/ pg.length = 0 THEN <<>> ELSE Flatten(pg.pages)

\* Pager.read_blob
Pager_read_blob(pg) ==
    IF pg.pages = <<>> \/ pg.length = 0 THEN <<>>
    ELSE With(Flatten(pg.pages), LAMBDA buffer : SubSeq(buffer, 1, Min(pg.length, Len(buffer))))

\* Pager._load: a file shorter than the header or without the magic tag is
\* read as no data
Pager_load(pg, file) ==
    IF ~file.exists THEN pg
    ELSE IF file.header = <<>> \/ file.header[1].magic # MAGIC THEN pg
    ELSE With(IF file.header[1].page_size # 0 THEN file.header[1].page_size ELSE pg.page_size,
              LAMBDA size :
                  With(Slices(file.body, size), LAMBDA chunks :
                      [page_size |-> size,
                       length |-> file.header[1].length,
                       pages |-> [j \in 1..Len(chunks) |-> LJust(chunks[j], size)]]))

\* Pager.__init__
Pager_init(file, page_size) ==
    Pager_load([page_size |-> page_size, pages |-> <<>>, length |-> 0], file)

\* ------------------------------------------------------------------ JSON

JOpen == <<"p", "{">>
JClose == <<"p", "}">>
LOpen == <<"p", "[">>
LClose == <<"p", "]">>
JStr(s) == <<"s", s>>

\* json.dumps of a cell: a scalar, or a list of scalars as one lexeme
JValue(v) ==
    IF v = PyNone THEN <<"l", "null">>
    ELSE IF v[1] = "int" THEN <<"n", v[2]>>
    ELSE IF v[1] = "list" THEN <<"a", v[2]>>
    ELSE <<"s", v[2]>>

\* json.loads of the lexeme of a cell
PyValue(tok) ==
    IF tok[1] = "l" THEN PyNone
    ELSE IF tok[1] = "n" THEN IntV(tok[2])
    ELSE IF tok[1] = "a" THEN ListV(tok[2])
    ELSE StrV(tok[2])

\* sorted(names) for a set of column names (alphabetical order of the
\* column vocabulary of the model)
ColumnOrder == <<"c", "id", "k", "name", "x", "y", "z">>
Sorted(S) == SelectSeq(ColumnOrder, LAMBDA c : c \in S)

JRow(d) == <<JOpen>> \o Flatten([i \in 1..Len(d) |-> <<JStr(d[i][1]), JValue(d[i][2])>>])
               \o <<JClose>>

JStrList(names) == <<LOpen>> \o [i \in 1..Len(names) |-> JStr(names[i])] \o <<LClose>>

\* BTreeStorage._persist, the snapshot of one table as JSON text
JTable(t, H) ==
    <<JOpen, JStr("columns")>> \o JStrList(t.columns)
        \o <<JStr("rows"), LOpen>>
        \o Flatten([i \in 1..Len(t.rows) |-> JRow(H[t.rows[i]])])
        \o <<LClose, JStr("indexes")>> \o JStrList(Sorted(DOMAIN t.indexes))
        \o <<JClose>>

\* json.dumps(snapshot, separators=(",", ":")).encode("utf-8")
Dumps(T, H) ==
    <<JOpen>> \o Flatten([i \in 1..Len(T) |-> <<JStr(T[i].name)>> \o JTable(T[i], H)])
        \o <<JClose>>

\* the first position at or after p that holds the lexeme tok
FirstAt(s, p, tok) == CHOOSE q \in p..Len(s) : s[q] = tok /\ \A r \in p..(q - 1) : s[r] # tok

\* json.loads of a list of strings that opens at p
LoadStrList(s, p) ==
    With(FirstAt(s, p, LClose), LAMBDA e :
        [val |-> [i \in 1..(e - p - 1) |-> s[p + i][2]], next |-> e + 1])

\* json.loads of a flat object (a row) that opens at p
LoadRow(s, p) ==
    With(FirstAt(s, p, JClose), LAMBDA e :
        LET f[i \in 0..((e - p - 1) \div 2)] ==
                IF i = 0 THEN <<>>
                ELSE DSet(f[i - 1], s[p + 2 * i - 1][2], PyValue(s[p + 2 * i]))
        IN  [val |-> f[(e - p - 1) \div 2], next |-> e + 1])

\* json.loads of the elements of a list of rows, from p up to its "]"
RECURSIVE LoadRows(_, _, _)
LoadRows(s, p, acc) ==
    IF s[p] = LClose THEN [val |-> acc, next |-> p + 1]
    ELSE With(LoadRow(s, p), LAMBDA r : LoadRows(s, r.next, Append(acc, r.val)))

\* json.loads of the members of one table object, from p up to its "}"
RECURSIVE LoadMembers(_, _, _)
LoadMembers(s, p, acc) ==
    IF s[p] = JClose THEN [val |-> acc, next |-> p + 1]
    ELSE IF s[p][2] = "rows"
         THEN With(LoadRows(s, p + 2, <<>>), LAMBDA r :
                  LoadMembers(s, r.next, [acc EXCEPT !.rows = r.val]))
         ELSE With(LoadStrList(s, p + 1), LAMBDA l :
                  LoadMembers(s, l.next,
                      IF s[p][2] = "columns" THEN [acc EXCEPT !.columns = l.val]
                      ELSE [acc EXCEPT !.indexes = l.val]))

\* json.loads of the members of the snapshot object, from p up to its "}"
RECURSIVE LoadTables(_, _, _)
LoadTables(s, p, acc) ==
    IF s[p] = JClose THEN acc
    ELSE With(LoadMembers(s, p + 2, [columns |-> <<>>, rows |-> <<>>, indexes |-> <<>>]),
              LAMBDA m : LoadTables(s, m.next, Append(acc, [name |-> s[p][2], meta |-> m.val])))

\* json.loads(blob.decode("utf-8")): the tables in document order
Loads(s) == LoadTables(s, 2, <<>>)

\* ------------------------------------------------------------------ table manager
\* A BTreeStorage with its Pager and its file is a record
\*   [tables, pager, file]  and the operations below thread the heap H of
\* row objects with it: st is [tables, pager, file, heap].
\* tables is the dict _tables in insertion order: a sequence of
\*   [name, columns, rows, indexes], rows being object ids and indexes a
\*   function from the indexed column to the hash index (value -> object ids).

table_exists(T, name) == \E i \in 1..Len(T) : T[i].name = name

TGet(T, name) == T[CHOOSE i \in 1..Len(T) : T[i].name = name]

TPut(T, name, t) ==
    IF table_exists(T, name)
    THEN [i \in 1..Len(T) |-> IF T[i].name = name THEN t ELSE T[i]]
    ELSE Append(T, t)

\* the smallest object id not in use
NewOid(H) == CHOOSE o \in 1..(Cardinality(DOMAIN H) + 1) :
                 o \notin DOMAIN H /\ \A p \in 1..(o - 1) : p \in DOMAIN H

\* index[value] = [row] in place of index.setdefault(value, []).append(row)
IndexOf_overwriting(H, rows, column) ==
    [v \in {DGet(H[rows[i]], column) : i \in 1..Len(rows)} |->
        <<rows[CHOOSE i \in 1..Len(rows) :
                  /\ DGet(H[rows[i]], column) = v
                  /\ \A j \in (i + 1)..Len(rows) : DGet(H[rows[j]], column) # v]>>]

\* the hash index _rebuild_index computes: value -> the rows holding it, in row order
IndexOf(H, rows, column) ==
    [v \in {DGet(H[rows[i]], column) : i \in 1..Len(rows)} |->
        SelectSeq(rows, LAMBDA o : DGet(H[o], column) = v)]

\* BTreeStorage._rebuild_index, on the table record
_rebuild_index(H, t, column) ==
    [t EXCEPT !.indexes = (column :> IndexOf(H, t.rows, column)) @@ @]

\* BTreeStorage._persist
_persist(st) ==
    With(Pager_write_blob(st.pager, st.file, Dumps(st.tables, st.heap)),
         LAMBDA w : [st EXCEPT !.pager = w.pager, !.file = w.file])

create_table(st, name, columns) ==
    _persist([st EXCEPT !.tables =
        TPut(@, name, [name |-> name, columns |-> columns, rows |-> <<>>, indexes |-> <<>>])])

drop_table(st, name) ==
    _persist([st EXCEPT !.tables = SelectSeq(@, LAMBDA t : t.name # name)])

\* BTreeStorage._rebuild_index raises TypeError: index.setdefault(value, [])
\* on a row whose value of the column is not hashable.  The index of the
\* column is then left as it was.
_rebuild_index_raises(H, rows, column) ==
    \E i \in 1..Len(rows) : ~Hashable(DGet(H[rows[i]], column))

\* the rows of table t with the new column set to None
WithColumn(H, t, column) ==
    [o \in DOMAIN H |-> IF o \in Range(t.rows) THEN DSet(H[o], column, PyNone) ELSE H[o]]

\* add_column without the test for a column that is already present
add_column_again(st, name, column) ==
    With(TGet(st.tables, name), LAMBDA t :
    With(WithColumn(st.heap, t, column), LAMBDA H :
        _persist([st EXCEPT
            !.heap = H,
            !.tables = TPut(@, name,
                [t EXCEPT !.columns = Append(@, column),
                          !.indexes = [c \in DOMAIN t.indexes |-> IndexOf(H, t.rows, c)]])])))

\* BTreeStorage.add_column raises TypeError: a rebuild of an index does
add_column_raises(st, name, column) ==
    With(TGet(st.tables, name), LAMBDA t :
        /\ column \notin Range(t.columns)
        /\ \E c \in DOMAIN t.indexes :
               _rebuild_index_raises(WithColumn(st.heap, t, column), t.rows, c))

\* BTreeStorage.add_column.  When a rebuild raises the column is added and
\* nothing is persisted (the tables of the model then hold one index, which
\* is left as it was).
add_column(st, name, column) ==
    With(TGet(st.tables, name), LAMBDA t :
        IF column \in Range(t.columns) THEN st
        ELSE With(WithColumn(st.heap, t, column), LAMBDA H :
                 IF add_column_raises(st, name, column)
                 THEN [st EXCEPT !.heap = H,
                                 !.tables = TPut(@, name, [t EXCEPT !.columns = Append(@, column)])]
                 ELSE _persist([st EXCEPT
                          !.heap = H,
                          !.tables = TPut(@, name,
                              [t EXCEPT !.columns = Append(@, column),
                                        !.indexes = [c \in DOMAIN t.indexes |->
                                                        IndexOf(H, t.rows, c)]])])))

\* BTreeStorage.create_index raises TypeError: the rebuild does
create_index_raises(st, name, column) ==
    With(TGet(st.tables, name), LAMBDA t :
        /\ column \notin DOMAIN t.indexes
        /\ _rebuild_index_raises(st.heap, t.rows, column))

\* BTreeStorage.create_index.  When the rebuild raises nothing changes.
create_index(st, name, column) ==
    With(TGet(st.tables, name), LAMBDA t :
        IF column \notin DOMAIN t.indexes /\ ~create_index_raises(st, name, column)
        THEN _persist([st EXCEPT !.tables = TPut(@, name, _rebuild_index(st.heap, t, column))])
        ELSE st)

drop_index(st, name, column) ==
    IF table_exists(st.tables, name)
    THEN With(TGet(st.tables, name), LAMBDA t :
             _persist([st EXCEPT !.tables = TPut(@, name,
                 [t EXCEPT !.indexes = [c \in (DOMAIN t.indexes) \ {column} |->
                                           t.indexes[c]]])]))
    ELSE st

\* index.setdefault(value, []).append(row)
IndexAppend(index, v, o) ==
    IF v \in DOMAIN index THEN [index EXCEPT ![v] = Append(@, o)] ELSE (v :> <<o>>) @@ index

\* BTreeStorage.insert_row: the new row object in ret, the exception raised
\* in fault.  index.setdefault raises TypeError on a value that is not
\* hashable, after the row is appended to the table: no index takes the row
\* (the tables of the model then hold one index) and nothing is persisted.
insert_row(st, name, values) ==
    With(TGet(st.tables, name), LAMBDA t :
    With(DZip(t.columns, values), LAMBDA row :
    With(NewOid(st.heap), LAMBDA o :
        IF \E c \in DOMAIN t.indexes : ~Hashable(DGet(row, c))
        THEN [st |-> [st EXCEPT !.heap = (o :> row) @@ @,
                                !.tables = TPut(@, name, [t EXCEPT !.rows = Append(@, o)])],
              ret |-> o, fault |-> "TypeError"]
        ELSE [st |-> _persist([st EXCEPT
                    !.heap = (o :> row) @@ @,
                    !.tables = TPut(@, name,
                        [t EXCEPT !.rows = Append(@, o),
                                  !.indexes = [c \in DOMAIN t.indexes |->
                                      IndexAppend(t.indexes[c], DGet(row, c), o)]])]),
              ret |-> o, fault |-> ""])))

\* BTreeStorage._rows_for: the matching row objects.  where is <<>> (None)
\* or <<[column, value]>>.
_rows_for(T, H, table, where) ==
    With(TGet(T, table), LAMBDA data :
        IF where = <<>> THEN data.rows
        ELSE IF where[1].column \in DOMAIN data.indexes
             THEN IF where[1].value \in DOMAIN data.indexes[where[1].column]
                  THEN data.indexes[where[1].column][where[1].value]
                  ELSE <<>>
             ELSE SelectSeq(data.rows, LAMBDA o : DGet(H[o], where[1].column) = where[1].value))

\* BTreeStorage._rows_for raises TypeError: index.get(value, []) on a value
\* that is not hashable
_rows_for_raises(T, table, where) ==
    /\ where # <<>>
    /\ where[1].column \in DOMAIN TGet(T, table).indexes
    /\ ~Hashable(where[1].value)

\* BTreeStorage.update_rows: the number of matched rows in ret, the
\* exception raised in fault.  assignments is a dict.  When the rebuild of
\* an index raises, the rows are updated, the index is left as it was (the
\* tables of the model then hold one index) and nothing is persisted.
update_rows(st, table, assignments, where) ==
    With(_rows_for(st.tables, st.heap, table, where), LAMBDA rows :
    With([o \in DOMAIN st.heap |->
             IF o \in Range(rows) THEN DUpdate(st.heap[o], assignments) ELSE st.heap[o]],
         LAMBDA H :
    With(TGet(st.tables, table), LAMBDA t :
        \* affected_cols
        IF \E c \in DOMAIN t.indexes \cap Range(DKeys(assignments)) :
               _rebuild_index_raises(H, t.rows, c)
        THEN [st |-> [st EXCEPT !.heap = H], ret |-> Len(rows), fault |-> "TypeError"]
        ELSE With([st EXCEPT
                      !.heap = H,
                      !.tables = TPut(@, table,
                          [t EXCEPT !.indexes = [c \in DOMAIN t.indexes |->
                              IF c \in Range(DKeys(assignments)) THEN IndexOf(H, t.rows, c)
                              ELSE t.indexes[c]]])],
                  LAMBDA st1 :
                      [st |-> IF rows # <<>> THEN _persist(st1) ELSE st1,
                       ret |-> Len(rows), fault |-> ""]))))

\* delete_rows that removes every row, whatever the WHERE clause
delete_rows_unfiltered(st, table, where) ==
    With(TGet(st.tables, table), LAMBDA t :
        [st |-> _persist([st EXCEPT !.tables = TPut(@, table,
                    [t EXCEPT !.rows = <<>>,
                              !.indexes = [c \in DOMAIN t.indexes |-> <<>>]])]),
         ret |-> Len(t.rows), fault |-> ""])

\* BTreeStorage.delete_rows: the number of removed rows in ret, the
\* exception raised in fault.  When the rebuild of an index raises, the rows
\* are removed, the index is left as it was (the tables of the model then
\* hold one index) and nothing is persisted.
delete_rows(st, table, where) ==
    With(TGet(st.tables, table), LAMBDA t :
    With(IF where = <<>> THEN <<>>
         ELSE SelectSeq(t.rows, LAMBDA o : DGet(st.heap[o], where[1].column) # where[1].value),
         LAMBDA kept :
        IF \E c \in DOMAIN t.indexes : _rebuild_index_raises(st.heap, kept, c)
        THEN [st |-> [st EXCEPT !.tables = TPut(@, table, [t EXCEPT !.rows = kept])],
              ret |-> Len(t.rows) - Len(kept), fault |-> "TypeError"]
        ELSE With([st EXCEPT !.tables = TPut(@, table,
                      [t EXCEPT !.rows = kept,
                                !.indexes = [c \in DOMAIN t.indexes |->
                                                IndexOf(st.heap, kept, c)]])],
                  LAMBDA st1 :
                      [st |-> IF Len(t.rows) - Len(kept) # 0 THEN _persist(st1) ELSE st1,
                       ret |-> Len(t.rows) - Len(kept), fault |-> ""])))

\* A requested column is [name, suffix, dotted]: the text as written, the
\* part after its first "." (col.split(".", 1)[-1]) and whether it has a ".".
IsStar(columns) == Len(columns) = 1 /\ columns[1].name = "*"

\* the combined row of a pair: the columns of both tables, namespaced
Combined(left, right, left_prefix, right_prefix, left_columns, right_columns) ==
    LET f[i \in 0..(Len(left_columns) + Len(right_columns))] ==
            IF i = 0 THEN <<>>
            ELSE IF i <= Len(left_columns)
                 THEN DSet(f[i - 1], left_prefix \o "." \o left_columns[i],
                           DGet(left, left_columns[i]))
                 ELSE DSet(f[i - 1],
                           right_prefix \o "." \o right_columns[i - Len(left_columns)],
                           DGet(right, right_columns[i - Len(left_columns)]))
    IN  f[Len(left_columns) + Len(right_columns)]

\* the projection of a combined row on the requested columns
JoinProjected(columns, combined, left, right, left_columns, right_columns) ==
    LET f[i \in 0..Len(columns)] ==
            IF i = 0 THEN <<>>
            ELSE DSet(f[i - 1], columns[i].name,
                      IF columns[i].dotted THEN DGet(combined, columns[i].name)
                      ELSE IF columns[i].name \in Range(left_columns)
                           THEN DGet(left, columns[i].name)
                      ELSE IF columns[i].name \in Range(right_columns)
                           THEN DGet(right, columns[i].name)
                      ELSE PyNone)
    IN  f[Len(columns)]

\* one result row of the join: the combined row of a pair, projected
JoinRow(columns, join, left, right, left_columns, right_columns) ==
    With(Combined(left, right, join.left_table, join.right_table, left_columns, right_columns),
         LAMBDA combined :
             IF IsStar(columns) THEN combined
             ELSE JoinProjected(columns, combined, left, right, left_columns, right_columns))

\* index.get(key, [])
IndexGet(index, key) == IF key \in DOMAIN index THEN index[key] ELSE <<>>

\* BTreeStorage._join_rows raises TypeError: the index built on the joined
\* table's column cannot be built
_join_rows_unindexed(st, join) ==
    With(TGet(st.tables, join.table), LAMBDA right_0 :
        /\ join.right_column \notin DOMAIN right_0.indexes
        /\ _rebuild_index_raises(st.heap, right_0.rows, join.right_column))

\* BTreeStorage._join_rows raises TypeError: the index cannot be built, or
\* index.get(key, []) is called on a key that is not hashable
_join_rows_raises(st, table, where, join) ==
    \/ _join_rows_unindexed(st, join)
    \/ With(_rows_for(st.tables, st.heap, table, where), LAMBDA left_rows :
           \E i \in 1..Len(left_rows) :
               ~Hashable(DGet(st.heap[left_rows[i]], join.left_column)))

\* the storage after BTreeStorage._join_rows raised: it keeps the index
\* built on the joined table's column, if that was built
_join_rows_raised(st, join) ==
    IF join.right_column \in DOMAIN TGet(st.tables, join.table).indexes
       \/ _join_rows_unindexed(st, join)
    THEN st
    ELSE [st EXCEPT !.tables = TPut(@, join.table,
             _rebuild_index(st.heap, TGet(st.tables, join.table), join.right_column))]

\* BTreeStorage._join_rows: the result rows in ret, and the storage, which
\* keeps the index built on the joined table's column
_join_rows(st, table, columns, where, join) ==
    With(_rows_for(st.tables, st.heap, table, where), LAMBDA left_rows :
    With(TGet(st.tables, join.table), LAMBDA right_0 :
    With(IF join.right_column \in DOMAIN right_0.indexes THEN right_0
         ELSE _rebuild_index(st.heap, right_0, join.right_column),
         LAMBDA right_data :
    With(TPut(st.tables, join.table, right_data), LAMBDA T :
    With(TGet(T, table).columns, LAMBDA left_columns :
        [st |-> [st EXCEPT !.tables = T],
         ret |-> Flatten([i \in 1..Len(left_rows) |->
                    With(IndexGet(right_data.indexes[join.right_column],
                                  DGet(st.heap[left_rows[i]], join.left_column)),
                         LAMBDA matches :
                             [j \in 1..Len(matches) |->
                                 JoinRow(columns, join, st.heap[left_rows[i]],
                                         st.heap[matches[j]], left_columns,
                                         right_data.columns)])])])))))

\* the projection of a row on the requested columns (no join)
Projected(columns, row) ==
    LET f[i \in 0..Len(columns)] ==
            IF i = 0 THEN <<>>
            ELSE DSet(f[i - 1], columns[i].name, DGet(row, columns[i].suffix))
    IN  f[Len(columns)]

\* BTreeStorage.select_rows: the result rows (copies) in ret.  join is <<>>
\* (None) or <<[table, left_table, left_column, right_table, right_column]>>.
select_rows(st, table, columns, where, join) ==
    IF join # <<>> THEN _join_rows(st, table, columns, where, join[1])
    ELSE With(_rows_for(st.tables, st.heap, table, where), LAMBDA rows :
             [st |-> st,
              ret |-> [i \in 1..Len(rows) |->
                          IF IsStar(columns) THEN st.heap[rows[i]]
                          ELSE Projected(columns, st.heap[rows[i]])]])

\* BTreeStorage.describe, per table: [name, columns, row_count, indexes]
describe(T) ==
    {[name |-> T[i].name, columns |-> T[i].columns, row_count |-> Len(T[i].rows),
      indexes |-> Sorted(DOMAIN T[i].indexes)] : i \in 1..Len(T)}

\* rows = [dict(row) for row in meta["rows"]]: the rows as new objects, after
\* the object ids acc.rows in the heap acc.heap
RECURSIVE CopyRows(_, _)
CopyRows(acc, rows) ==
    IF rows = <<>> THEN acc
    ELSE With(NewOid(acc.heap), LAMBDA o :
             CopyRows([rows |-> Append(acc.rows, o), heap |-> (o :> Head(rows)) @@ acc.heap],
                      Tail(rows)))

\* BTreeStorage._load, one table of the snapshot: its rows and its indexes
LoadTable(acc, entry) ==
    With(CopyRows([rows |-> <<>>, heap |-> acc.heap], entry.meta.rows), LAMBDA copied :
        [tables |-> TPut(acc.tables, entry.name,
                        [name |-> entry.name, columns |-> entry.meta.columns,
                         rows |-> copied.rows,
                         indexes |-> [c \in Range(entry.meta.indexes) |->
                                         IndexOf(copied.heap, copied.rows, c)]]),
         heap |-> copied.heap])

\* BTreeStorage._load: the tables and the heap after the blob is read.  The
\* rows are new objects, the indexes are rebuilt from them.
_load(pager, H0) ==
    With(Pager_read_blob(pager), LAMBDA blob :
        IF blob = <<>> THEN [tables |-> <<>>, heap |-> H0]
        ELSE With(Loads(blob), LAMBDA data :
                 LET f[i \in 0..Len(data)] ==
                         IF i = 0 THEN [tables |-> <<>>, heap |-> H0]
                         ELSE LoadTable(f[i - 1], data[i])
                 IN  f[Len(data)]))

\* ------------------------------------------------------------------ parser
\* str.upper() and str.lower() on the words of the model: the words written
\* in another case than the one asked for are listed, every other word is
\* already in that case.
Upper(w) ==
    CASE w = "select" -> "SELECT" [] w = "Insert" -> "INSERT" [] w = "set" -> "SET"
      [] w = "where" -> "WHERE" [] w = "use" -> "USE" [] w = "commit" -> "COMMIT"
      [] w = "update" -> "UPDATE" [] w = "from" -> "FROM"
      [] w = "create" -> "CREATE" [] w = "alter" -> "ALTER" [] w = "drop" -> "DROP"
      [] w = "table" -> "TABLE" [] w = "database" -> "DATABASE" [] w = "index" -> "INDEX"
      [] w = "add" -> "ADD" [] w = "column" -> "COLUMN" [] w = "insert" -> "INSERT"
      [] w = "into" -> "INTO" [] w = "values" -> "VALUES" [] w = "delete" -> "DELETE"
      [] w = "inner" -> "INNER" [] w = "join" -> "JOIN" [] w = "on" -> "ON"
      [] w = "a" -> "A" [] w = "b" -> "B" [] w = "k" -> "K" [] w = "x" -> "X"
      [] w = "d2" -> "D2" [] w = "int" -> "INT"
      [] OTHER -> w

Lower(w) ==
    CASE w = "A" -> "a" [] w = "B" -> "b" [] w = "K" -> "k" [] w = "X" -> "x"
      [] w = "D2" -> "d2" [] w = "Default" -> "default" [] w = "Users" -> "users"
      [] w = "SELECT" -> "select" [] w = "SET" -> "set" [] w = "WHERE" -> "where"
      [] w = "USE" -> "use" [] w = "COMMIT" -> "commit" [] w = "UPDATE" -> "update"
      [] w = "FROM" -> "from" [] w = "CREATE" -> "create" [] w = "ALTER" -> "alter"
      [] w = "DROP" -> "drop" [] w = "TABLE" -> "table" [] w = "DATABASE" -> "database"
      [] w = "INDEX" -> "index" [] w = "ADD" -> "add" [] w = "COLUMN" -> "column"
      [] w = "INSERT" -> "insert" [] w = "INTO" -> "into" [] w = "VALUES" -> "values"
      [] w = "DELETE" -> "delete" [] w = "INNER" -> "inner" [] w = "JOIN" -> "join"
      [] w = "ON" -> "on" [] w = "INT" -> "int" [] w = "TEXT" -> "text"
      [] OTHER -> w

\* the lexemes that are not a run of word characters (\w+)
Punctuation == {"(", ")", ",", "=", ".", ";", "*"}
QuotedOf ==
    [l \in {"'ann'", "'bea'", "'Ann'", "'Bea'"} |->
        CASE l = "'ann'" -> "ann" [] l = "'bea'" -> "bea" [] l = "'Ann'" -> "Ann"
          [] OTHER -> "Bea"]
ListLiterals == {"[1]"}
IsWord(l) == l \notin Punctuation /\ l \notin DOMAIN QuotedOf /\ l \notin ListLiterals

\* ast.literal_eval on one lexeme: the value, or no value (the empty
\* sequence) when the lexeme is not a python literal
IntLiterals == {"0", "1", "2", "3"}
LiteralEval(l) ==
    IF l \in IntLiterals THEN <<IntV(l)>>
    ELSE IF l = "None" THEN <<PyNone>>
    ELSE IF l \in DOMAIN QuotedOf THEN <<StrV(QuotedOf[l])>>
    ELSE IF l \in ListLiterals THEN <<ListV(l)>>
    ELSE <<>>

\* the text of a run of lexemes: a blank between two lexemes, none around "."
\* and none before ";"
JoinText(ls) ==
    LET f[i \in 0..Len(ls)] ==
            IF i = 0 THEN ""
            ELSE IF i = 1 THEN ls[1]
            ELSE IF ls[i] \in {".", ";"} \/ ls[i - 1] = "." THEN f[i - 1] \o ls[i]
            ELSE f[i - 1] \o " " \o ls[i]
    IN  f[Len(ls)]

\* text.strip("'")
StripQuotes(text) == IF text \in DOMAIN QuotedOf THEN QuotedOf[text] ELSE text

\* SQLParser._parse_literal on the lexemes of the literal
_parse_literal(ls) ==
    IF Len(ls) = 1
    THEN With(LiteralEval(ls[1]), LAMBDA v :
             IF v # <<>> THEN v[1] ELSE StrV(StripQuotes(JoinText(ls))))
    ELSE StrV(StripQuotes(JoinText(ls)))

\* the positions of the lexeme sep in ls
Positions(ls, sep) == {i \in 1..Len(ls) : ls[i] = sep}

\* ls.split(sep): the runs between the occurrences of sep
RECURSIVE Split(_, _)
Split(ls, sep) ==
    With(Positions(ls, sep), LAMBDA P :
        IF P = {} THEN <<ls>>
        ELSE With(CHOOSE j \in P : \A k \in P : j <= k, LAMBDA i :
                 <<SubSeq(ls, 1, i - 1)>> \o Split(SubSeq(ls, i + 1, Len(ls)), sep)))

\* text.rstrip(";")
RECURSIVE RStrip(_)
RStrip(ls) == IF ls # <<>> /\ ls[Len(ls)] = ";" THEN RStrip(SubSeq(ls, 1, Len(ls) - 1)) ELSE ls

\* the first position of keyword kw (any case) strictly inside ls, 0 if none:
\* the test  " KW " in text.upper()
Inside(ls, kw) ==
    With({i \in 2..(Len(ls) - 1) : Upper(ls[i]) = kw}, LAMBDA P :
        IF P = {} THEN 0 ELSE CHOOSE i \in P : \A j \in P : i <= j)

\* the result of a parse step: details, or the exception it raises
Ok(details) == [fault |-> "", details |-> details]
Raise(e) == [fault |-> e, details |-> <<>>]

\* SQLParser._parse_condition on the lexemes after WHERE
_parse_condition(clause) ==
    With(Positions(clause, "="), LAMBDA P :
        IF P = {} THEN Raise("ValueError")
        ELSE With(CHOOSE i \in P : \A j \in P : i <= j, LAMBDA eq :
                 Ok(<<[column |-> Lower(JoinText(SubSeq(clause, 1, eq - 1))),
                       value |-> _parse_literal(SubSeq(clause, eq + 1, Len(clause)))]>>)))

\* the column definitions between the first "(" and the last ")"
ColumnChunks(cols) ==
    With(Positions(cols, ")"), LAMBDA P :
        SelectSeq(Split(SubSeq(cols, 1,
                            (IF P = {} THEN Len(cols) + 1
                             ELSE CHOOSE i \in P : \A j \in P : j <= i) - 1),
                        ","),
                  LAMBDA parts : parts # <<>>))

\* SQLParser._parse_create_table
_parse_create_table(text) ==
    IF Positions(text, "(") = {} THEN Raise("ValueError")
    ELSE With(Split(text, "(")[1], LAMBDA header :
             IF Len(header) < 3 THEN Raise("IndexError")
             ELSE With(ColumnChunks(SubSeq(text, Len(header) + 2, Len(text))), LAMBDA chunks :
                      Ok([table |-> Lower(header[3]),
                          columns |-> [i \in 1..Len(chunks) |->
                              [name |-> Lower(chunks[i][1]),
                               type |-> IF Len(chunks[i]) > 1 THEN Upper(chunks[i][2])
                                        ELSE "TEXT"]]])))

\* SQLParser._parse_alter_table
_parse_alter_table(text) ==
    IF Len(text) < 3 THEN Raise("IndexError")
    ELSE IF Len(text) >= 7 /\ Upper(text[4]) = "ADD" /\ Upper(text[5]) = "COLUMN"
         THEN Ok([action |-> "ADD_COLUMN", table |-> Lower(text[3]),
                  column |-> [name |-> Lower(text[6]), type |-> Upper(text[7])]])
         ELSE Ok(<<>>)

\* SQLParser._parse_value_list on the lexemes between the parentheses: a
\* comma-separated list of literals (a trailing comma is allowed); nested
\* tuples and lists are outside the values of the model
_parse_value_list(segment) ==
    With(Split(segment, ","), LAMBDA chunks :
    With(IF Len(chunks) > 1 /\ chunks[Len(chunks)] = <<>>
         THEN SubSeq(chunks, 1, Len(chunks) - 1) ELSE chunks,
         LAMBDA items :
        IF \A i \in 1..Len(items) : Len(items[i]) = 1 /\ LiteralEval(items[i][1]) # <<>>
        THEN Ok([i \in 1..Len(items) |-> LiteralEval(items[i][1])[1]])
        ELSE Raise("ValueError")))

\* SQLParser._parse_insert
_parse_insert(text) ==
    IF /\ Len(text) >= 7
       /\ Upper(text[1]) = "INSERT" /\ Upper(text[2]) = "INTO" /\ IsWord(text[3])
       /\ Upper(text[4]) = "VALUES" /\ text[5] = "(" /\ text[Len(text)] = ")"
    THEN With(_parse_value_list(SubSeq(text, 6, Len(text) - 1)), LAMBDA values :
             IF values.fault # "" THEN values
             ELSE Ok([table |-> Lower(text[3]), values |-> values.details]))
    ELSE Ok(<<>>)

\* one assignment of a SET clause, put into the dict d
Assignment(d, chunk) ==
    With(Len(Split(chunk, "=")[1]) + 1, LAMBDA eq :
        DSet(d, Lower(JoinText(SubSeq(chunk, 1, eq - 1))),
             _parse_literal(SubSeq(chunk, eq + 1, Len(chunk)))))

\* the assignments of a SET clause, as a dict, or the exception
Assignments(set_clause) ==
    With(Split(set_clause, ","), LAMBDA chunks :
        IF \E i \in 1..Len(chunks) : Positions(chunks[i], "=") = {} THEN Raise("ValueError")
        ELSE LET f[i \in 0..Len(chunks)] ==
                     IF i = 0 THEN <<>> ELSE Assignment(f[i - 1], chunks[i])
             IN  Ok(f[Len(chunks)]))

\* the WHERE clause that starts at lexeme w of text (none when w = 0)
WhereClause(text, w) ==
    IF w = 0 THEN Ok(<<>>) ELSE _parse_condition(SubSeq(text, w + 1, Len(text)))

\* SQLParser._parse_update.  The WHERE keyword is found in any case, the SET
\* keyword only as " SET ".
_parse_update(text) ==
    With(Inside(text, "WHERE"), LAMBDA w :
    With(IF w = 0 THEN text ELSE SubSeq(text, 1, w - 1), LAMBDA prefix :
    With({i \in 2..(Len(prefix) - 1) : prefix[i] = "SET"}, LAMBDA S :
        IF Len(prefix) < 2 \/ S = {} THEN Raise("IndexError")
        ELSE With(Assignments(SubSeq(prefix, (CHOOSE i \in S : \A j \in S : i <= j) + 1,
                                     Len(prefix))),
                  LAMBDA assignments :
                      IF assignments.fault # "" THEN assignments
                      ELSE With(WhereClause(text, w), LAMBDA where :
                               IF where.fault # "" THEN where
                               ELSE Ok([table |-> Lower(prefix[2]),
                                        assignments |-> assignments.details,
                                        where |-> where.details]))))))

\* SQLParser._parse_delete
_parse_delete(text) ==
    With(Inside(text, "WHERE"), LAMBDA w :
    With(IF w = 0 THEN text ELSE SubSeq(text, 1, w - 1), LAMBDA prefix :
        IF Len(prefix) < 3 THEN Raise("IndexError")
        ELSE With(WhereClause(text, w), LAMBDA where :
                 IF where.fault # "" THEN where
                 ELSE Ok([table |-> Lower(prefix[3]), where |-> where.details]))))

\* the part of _SELECT_RE after the table name: nothing, a WHERE clause, or
\* an INNER JOIN clause and then nothing or a WHERE clause
WhereMatches(r) == Len(r) >= 4 /\ Upper(r[1]) = "WHERE" /\ IsWord(r[2]) /\ r[3] = "="
JoinMatches(r) ==
    /\ Len(r) >= 11
    /\ Upper(r[1]) = "INNER" /\ Upper(r[2]) = "JOIN" /\ IsWord(r[3]) /\ Upper(r[4]) = "ON"
    /\ IsWord(r[5]) /\ r[6] = "." /\ IsWord(r[7]) /\ r[8] = "="
    /\ IsWord(r[9]) /\ r[10] = "." /\ IsWord(r[11])
TailMatches(r) ==
    \/ r = <<>>
    \/ WhereMatches(r)
    \/ JoinMatches(r) /\ (Len(r) = 11 \/ WhereMatches(SubSeq(r, 12, Len(r))))

\* one requested column of a SELECT, as written
RequestedColumn(chunk) ==
    With(Positions(chunk, "."), LAMBDA P :
        [name |-> JoinText(chunk),
         suffix |-> IF P = {} THEN JoinText(chunk)
                    ELSE JoinText(SubSeq(chunk, (CHOOSE i \in P : \A j \in P : i <= j) + 1,
                                         Len(chunk))),
         dotted |-> P # {}])

\* the details of a SELECT whose FROM keyword is lexeme f of text
SelectDetails(text, f) ==
    With(SubSeq(text, f + 2, Len(text)), LAMBDA r :
    With(Split(SubSeq(text, 2, f - 1), ","), LAMBDA chunks :
    With(JoinMatches(r), LAMBDA hasJoin :
    With(IF hasJoin THEN SubSeq(r, 12, Len(r)) ELSE r, LAMBDA w :
        Ok([table |-> Lower(text[f + 1]),
            columns |-> [i \in 1..Len(chunks) |-> RequestedColumn(chunks[i])],
            where |-> IF w = <<>> THEN <<>>
                      ELSE <<[column |-> Lower(w[2]),
                              value |-> _parse_literal(SubSeq(w, 4, Len(w)))]>>,
            join |-> IF hasJoin
                     THEN <<[table |-> Lower(r[3]),
                             left_table |-> Lower(r[5]), left_column |-> Lower(r[7]),
                             right_table |-> Lower(r[9]), right_column |-> Lower(r[11])]>>
                     ELSE <<>>])))))

\* SQLParser._parse_select
_parse_select(text) ==
    With({f \in 3..(Len(text) - 1) :
             /\ Upper(text[f]) = "FROM" /\ IsWord(text[f + 1])
             /\ TailMatches(SubSeq(text, f + 2, Len(text)))},
         LAMBDA F :
             IF Upper(text[1]) # "SELECT" \/ F = {} THEN Ok(<<>>)
             ELSE SelectDetails(text, CHOOSE i \in F : \A j \in F : i <= j))

\* the ParsedCommand of kind c with the details r, or the exception of r
Cmd(query, c, r) ==
    [command |-> IF r.fault = "" THEN c ELSE "", raw |-> JoinText(query),
     details |-> r.details, fault |-> r.fault]

\* SQLParser.parse, the statements of two keywords
parse_two_keywords(query, tokens, command, second) ==
    IF command \in {"CREATE", "ALTER"} /\ second = "DATABASE"
    THEN IF Len(tokens) < 3 THEN Cmd(query, "", Raise("IndexError"))
         ELSE Cmd(query, command \o "_DATABASE", Ok([name |-> Lower(tokens[3])]))
    ELSE IF command = "CREATE" /\ second = "TABLE"
    THEN Cmd(query, "CREATE_TABLE", _parse_create_table(tokens))
    ELSE IF command = "ALTER" /\ second = "TABLE"
    THEN Cmd(query, "ALTER_TABLE", _parse_alter_table(tokens))
    ELSE IF command = "DROP" /\ second = "TABLE"
    THEN IF Len(tokens) < 3 THEN Cmd(query, "", Raise("IndexError"))
         ELSE Cmd(query, "DROP_TABLE", Ok([table |-> Lower(tokens[3])]))
    ELSE IF command \in {"CREATE", "DROP"} /\ second = "INDEX"
    THEN IF Len(tokens) < 4 THEN Cmd(query, "", Raise("IndexError"))
         ELSE Cmd(query, command \o "_INDEX",
                  Ok([table |-> Lower(tokens[3]), column |-> Lower(tokens[4])]))
    ELSE Cmd(query, "UNKNOWN", Ok(<<>>))

\* SQLParser.parse, after the text is stripped: text.split() are its lexemes
parse_tokens(query, tokens, command) ==
    IF command = "COMMIT" THEN Cmd(query, "COMMIT", Ok(<<>>))
    ELSE IF command = "USE"
         THEN IF Len(tokens) > 1
              THEN Cmd(query, "USE_DATABASE", Ok([name |-> Lower(tokens[2])]))
              ELSE Cmd(query, "UNKNOWN", Ok(<<>>))
    ELSE IF command = "INSERT" THEN Cmd(query, "INSERT", _parse_insert(tokens))
    ELSE IF command = "UPDATE" THEN Cmd(query, "UPDATE", _parse_update(tokens))
    ELSE IF command = "DELETE" THEN Cmd(query, "DELETE", _parse_delete(tokens))
    ELSE IF command = "SELECT" THEN Cmd(query, "SELECT", _parse_select(tokens))
    ELSE IF Len(tokens) > 1 THEN parse_two_keywords(query, tokens, command, Upper(tokens[2]))
    ELSE Cmd(query, "UNKNOWN", Ok(<<>>))

\* SQLParser.parse: [command, raw, details, fault], fault naming the
\* exception the call raises ("" when it returns)
parse(query) ==
    IF query = <<>> THEN Cmd(query, "EMPTY", Ok(<<>>))
    ELSE With(RStrip(query), LAMBDA tokens :
             IF tokens = <<>> THEN Cmd(query, "", Raise("IndexError"))
             ELSE parse_tokens(query, tokens, Upper(tokens[1])))

\* ------------------------------------------------------------------ statements
\* The queries of the model, as lexemes.

DatabaseQueries ==
    { <<"CREATE", "DATABASE", "d2">>,
      <<"USE", "default">>,
      <<"USE", "d2">>,
      <<"USE", "reports">> }

SchemaQueries ==
    { <<"CREATE", "TABLE", "a", "(", "k", "INT", ")">>,
      <<"CREATE", "TABLE", "a", "(", "k", "INT", ",", "x", "TEXT", ")">>,
      <<"DROP", "TABLE", "a">>,
      <<"CREATE", "INDEX", "a", "k">> }

DataQueries ==
    { <<"INSERT", "INTO", "a", "VALUES", "(", "1", ")">> }

SelectQueries ==
    { <<"SELECT", "*", "FROM", "a">> }

CommitQueries ==
    { <<"COMMIT">> }

\* statements on the table ghost, which no statement creates
MissingTableQueries ==
    { <<"ALTER", "TABLE", "ghost", "ADD", "COLUMN", "x", "INT">>,
      <<"DROP", "TABLE", "ghost">>,
      <<"CREATE", "INDEX", "ghost", "k">>,
      <<"DROP", "INDEX", "ghost", "k">>,
      <<"INSERT", "INTO", "ghost", "VALUES", "(", "1", ")">>,
      <<"UPDATE", "ghost", "SET", "k", "=", "1">>,
      <<"DELETE", "FROM", "ghost">>,
      <<"SELECT", "*", "FROM", "ghost">>,
      <<"SELECT", "*", "FROM", "a", "INNER", "JOIN", "ghost", "ON",
        "a", ".", "k", "=", "ghost", ".", "k">> }

\* statements with a recognised first keyword and a malformed remainder, and
\* an unrecognised one
MalformedQueries ==
    { <<"INSERT", "INTO", "a">>,
      <<"SELECT", "k">>,
      <<"ALTER", "TABLE", "a", "ADD", "COLUMN", "x">>,
      <<"CREATE", "DATABASE">>,
      <<"UPDATE", "a">>,
      <<"EXPLAIN", "a">> }

\* statements that never change a table: on a table no statement creates,
\* a keyword that is no command, and a read
IdleQueries ==
    { <<"INSERT", "INTO", "ghost", "VALUES", "(", "1", ")">>,
      <<"EXPLAIN", "a">>,
      <<"SELECT", "*", "FROM", "a">> }

\* the statements of the runs on the commit log
LogSchemaQueries ==
    { <<"CREATE", "TABLE", "a", "(", "k", "INT", ")">>,
      <<"ALTER", "TABLE", "a", "ADD", "COLUMN", "x", "INT">>,
      <<"DROP", "TABLE", "a">> }

LogDataQueries ==
    { <<"INSERT", "INTO", "a", "VALUES", "(", "1", ")">>,
      <<"UPDATE", "a", "SET", "k", "=", "2">>,
      <<"DELETE", "FROM", "a">> }

\* the statements of the runs on two tables with an index and a join
JoinSchemaQueries ==
    { <<"CREATE", "TABLE", "a", "(", "k", "INT", ")">>,
      <<"CREATE", "TABLE", "b", "(", "k", "INT", ")">> }

JoinIndexQueries ==
    { <<"CREATE", "INDEX", "a", "k">> }

JoinDataQueries ==
    { <<"INSERT", "INTO", "a", "VALUES", "(", "1", ")">>,
      <<"INSERT", "INTO", "a", "VALUES", "(", "2", ")">>,
      <<"INSERT", "INTO", "b", "VALUES", "(", "1", ")">>,
      <<"INSERT", "INTO", "b", "VALUES", "(", "2", ")">> }

JoinQuery ==
    <<"SELECT", "*", "FROM", "a", "INNER", "JOIN", "b", "ON", "a", ".", "k", "=", "b", ".", "k">>

JoinSelectQueries ==
    { JoinQuery,
      <<"SELECT", "*", "FROM", "a", "WHERE", "k", "=", "1">>,
      <<"SELECT", "*", "FROM", "a", "WHERE", "k", "=", "[1]">> }

\* the statements of the runs on table a with column x and table b with
\* column y, joined with the sides of ON in either order
OnSchemaQueries ==
    { <<"CREATE", "TABLE", "a", "(", "x", "INT", ")">>,
      <<"CREATE", "TABLE", "b", "(", "y", "INT", ")">> }

OnQuery ==
    <<"SELECT", "*", "FROM", "a", "INNER", "JOIN", "b", "ON", "a", ".", "x", "=", "b", ".", "y">>

OnQuerySwapped ==
    <<"SELECT", "*", "FROM", "a", "INNER", "JOIN", "b", "ON", "b", ".", "y", "=", "a", ".", "x">>

OnSelectQueries == {OnQuery, OnQuerySwapped}

\* the statements of the runs with restarts of the engine
RestartDatabaseQueries ==
    { <<"CREATE", "DATABASE", "d2">>,
      <<"CREATE", "DATABASE", "d3">>,
      <<"ALTER", "DATABASE", "default">>,
      <<"USE", "d2">>,
      <<"USE", "reports">> }

RestartTableQueries ==
    { <<"CREATE", "TABLE", "a", "(", "k", "INT", ")">>,
      <<"INSERT", "INTO", "a", "VALUES", "(", "1", ")">> }

\* the statements of the runs on two databases
DbDatabaseQueries ==
    { <<"CREATE", "DATABASE", "d2">>,
      <<"ALTER", "DATABASE", "d2">>,
      <<"CREATE", "DATABASE", "default">>,
      <<"ALTER", "DATABASE", "default">>,
      <<"USE", "reports">> }

DbTableQueries ==
    { <<"CREATE", "TABLE", "a", "(", "k", "INT", ")">>,
      <<"INSERT", "INTO", "a", "VALUES", "(", "1", ")">>,
      <<"CREATE", "INDEX", "a", "k">>,
      <<"DROP", "TABLE", "a">>,
      <<"SELECT", "*", "FROM", "a">> }

\* the statements of the runs on the rows of one table
DataSchemaQueries ==
    { <<"CREATE", "TABLE", "a", "(", "k", "INT", ")">>,
      <<"CREATE", "TABLE", "a", "(", "k", "INT", ",", "k", "TEXT", ")">>,
      <<"ALTER", "TABLE", "a", "ADD", "COLUMN", "x", "TEXT">>,
      <<"CREATE", "INDEX", "a", "k">>,
      <<"DROP", "TABLE", "a">> }

DataInsertQueries ==
    { <<"INSERT", "INTO", "a", "VALUES", "(", "1", ",", "'ann'", ")">>,
      <<"INSERT", "INTO", "a", "VALUES", "(", "2", ")">> }

DataUpdateQueries ==
    { <<"UPDATE", "a", "SET", "k", "=", "2", "WHERE", "k", "=", "1">>,
      <<"UPDATE", "a", "SET", "x", "=", "'bea'", "WHERE", "k", "=", "1">>,
      <<"UPDATE", "a", "SET", "k", "=", "1">> }

DataDeleteQueries ==
    { <<"DELETE", "FROM", "a", "WHERE", "k", "=", "1">>,
      <<"DELETE", "FROM", "a", "WHERE", "x", "=", "None">>,
      <<"DELETE", "FROM", "a">> }

\* the statements of the scenario on the table users, in its order
Scenario ==
    << <<"CREATE", "TABLE", "users", "(", "id", "INT", ",", "name", "TEXT", ")">>,
       <<"INSERT", "INTO", "users", "VALUES", "(", "1", ",", "'Ann'", ")">>,
       <<"SELECT", "*", "FROM", "users">>,
       <<"UPDATE", "users", "SET", "name", "=", "'Bea'", "WHERE", "id", "=", "1">>,
       <<"DELETE", "FROM", "users", "WHERE", "id", "=", "1">>,
       <<"SELECT", "*", "FROM", "users">> >>

UsersQueries == Range(Scenario) \cup { <<"DROP", "TABLE", "users">> }

\* the inputs of the runs of the parser alone: statements, each also cut
\* short after any lexeme and with any one lexeme left out
ParseBase ==
    { <<>>,
      <<";">>,
      <<"CREATE", "DATABASE", "d2">>,
      <<"USE", "d2">>,
      <<"DROP", "TABLE", "a">>,
      <<"CREATE", "INDEX", "a", "k">>,
      <<"CREATE", "TABLE", "a", "(", "k", "INT", ")">>,
      <<"ALTER", "TABLE", "a", "ADD", "COLUMN", "x", "INT">>,
      <<"INSERT", "INTO", "a", "VALUES", "(", "1", ",", "'ann'", ")">>,
      <<"INSERT", "INTO", "a", "VALUES", "(", "x", ")">>,
      <<"UPDATE", "a", "SET", "k", "=", "2", "WHERE", "k", "=", "1">>,
      <<"DELETE", "FROM", "a", "WHERE", "k", "=", "1">>,
      <<"SELECT", "k", "FROM", "a", "WHERE", "k", "=", "1">>,
      JoinQuery,
      <<"COMMIT">>,
      <<"EXPLAIN", "a">> }

CutShort(q) == {SubSeq(q, 1, n) : n \in 0..Len(q)}

LeftOut(q) == {SubSeq(q, 1, i - 1) \o SubSeq(q, i + 1, Len(q)) : i \in 1..Len(q)}

ParseInputs == UNION {CutShort(q) \cup LeftOut(q) : q \in ParseBase}

\* statements on a table whose cells may hold a list
ListSchemaQueries ==
    { <<"CREATE", "TABLE", "a", "(", "k", "INT", ")">>,
      <<"CREATE", "INDEX", "a", "k">>,
      <<"DROP", "INDEX", "a", "k">>,
      <<"ALTER", "TABLE", "a", "ADD", "COLUMN", "x", "TEXT">> }

ListDataQueries ==
    { <<"INSERT", "INTO", "a", "VALUES", "(", "1", ")">>,
      <<"INSERT", "INTO", "a", "VALUES", "(", "[1]", ")">>,
      <<"UPDATE", "a", "SET", "k", "=", "[1]">>,
      <<"UPDATE", "a", "SET", "k", "=", "2", "WHERE", "k", "=", "1">> }

ListSelectQueries ==
    { <<"SELECT", "*", "FROM", "a">>,
      <<"SELECT", "*", "FROM", "a", "WHERE", "k", "=", "1">>,
      <<"SELECT", "*", "FROM", "a", "INNER", "JOIN", "a", "ON", "a", ".", "k", "=",
        "a", ".", "k">> }

\* statements of two databases that fill the commit log
TraceDatabaseQueries ==
    { <<"CREATE", "DATABASE", "d2">>,
      <<"USE", "default">> }

TraceSchemaQueries ==
    { <<"CREATE", "TABLE", "a", "(", "k", "INT", ")">>,
      <<"DROP", "TABLE", "ghost">>,
      <<"INSERT", "INTO", "ghost", "VALUES", "(", "1", ")">>,
      <<"SELECT", "*", "FROM", "a">> }

TraceDataQueries ==
    { <<"INSERT", "INTO", "a", "VALUES", "(", "1", ")">>,
      <<"UPDATE", "a", "SET", "k", "=", "2", "WHERE", "k", "=", "1">>,
      <<"DELETE", "FROM", "a">> }

\* the keywords of the statements
Keywords ==
    {"CREATE", "ALTER", "DROP", "TABLE", "DATABASE", "INDEX", "ADD", "COLUMN", "USE",
     "INSERT", "INTO", "VALUES", "UPDATE", "SET", "DELETE", "FROM", "SELECT", "INNER",
     "JOIN", "ON", "WHERE", "COMMIT"}

\* the names of tables and databases in the statements
Names == {"a", "b", "d2"}

\* the recognised statements whose letter case is varied
CaseBase ==
    { <<"CREATE", "DATABASE", "d2">>,
      <<"ALTER", "DATABASE", "d2">>,
      <<"USE", "d2">>,
      <<"CREATE", "TABLE", "a", "(", "k", "INT", ")">>,
      <<"ALTER", "TABLE", "a", "ADD", "COLUMN", "x", "INT">>,
      <<"DROP", "TABLE", "a">>,
      <<"CREATE", "INDEX", "a", "k">>,
      <<"DROP", "INDEX", "a", "k">>,
      <<"INSERT", "INTO", "a", "VALUES", "(", "1", ")">>,
      <<"UPDATE", "a", "SET", "k", "=", "2", "WHERE", "k", "=", "1">>,
      <<"UPDATE", "a", "SET", "k", "=", "2">>,
      <<"DELETE", "FROM", "a", "WHERE", "k", "=", "1">>,
      <<"DELETE", "FROM", "a">>,
      <<"SELECT", "k", "FROM", "a", "WHERE", "k", "=", "1">>,
      JoinQuery,
      <<"COMMIT">> }

\* a keyword in lower case, a name in upper case, any other lexeme as it is
OtherCase(l) ==
    IF l \in Keywords THEN Lower(l) ELSE IF l \in Names THEN Upper(l) ELSE l

\* the statement q with the case of any of its keywords and names changed
RECURSIVE Recased(_)
Recased(q) ==
    IF q = <<>> THEN {<<>>}
    ELSE {<<h>> \o t : h \in {Head(q), OtherCase(Head(q))}, t \in Recased(Tail(q))}

CaseInputs == UNION {Recased(q) : q \in CaseBase}

\* the statement of CaseBase that q is a variant of
WrittenPlainly(q) == CHOOSE b \in CaseBase : q \in Recased(b)

\* every query of the model, and its parse, computed once
AllQueries ==
    DatabaseQueries \cup SchemaQueries \cup DataQueries \cup SelectQueries \cup CommitQueries
        \cup MissingTableQueries \cup MalformedQueries \cup IdleQueries
        \cup LogSchemaQueries \cup LogDataQueries
        \cup JoinSchemaQueries \cup JoinIndexQueries \cup JoinDataQueries \cup JoinSelectQueries
        \cup OnSchemaQueries \cup OnSelectQueries
        \cup RestartDatabaseQueries \cup RestartTableQueries
        \cup DbDatabaseQueries \cup DbTableQueries
        \cup DataSchemaQueries \cup DataInsertQueries \cup DataUpdateQueries
        \cup DataDeleteQueries \cup UsersQueries
        \cup ListSchemaQueries \cup ListDataQueries \cup ListSelectQueries
        \cup TraceDatabaseQueries \cup TraceSchemaQueries \cup TraceDataQueries
        \cup ParseInputs \cup CaseInputs

Parsed == [q \in AllQueries |-> parse(q)]

ParseOf(q) == Parsed[q]

\* ------------------------------------------------------------------ commit log

\* LSMTreeStorage.compact
lsm_compact(segments) ==
    SubSeq(segments, IF Len(segments) > 10 THEN Len(segments) - 9 ELSE 1, Len(segments))

\* log that compacts after it appends
lsm_log_compacting(segments, entry) == lsm_compact(Append(segments, entry))

\* LSMTreeStorage.log
lsm_log(segments, entry) == Append(segments, entry)

\* commit without self._segments.clear()
lsm_commit_keeping(segments) == [flushed |-> segments, segments |-> lsm_compact(segments)]

\* LSMTreeStorage.commit: the flushed entries and the log afterwards
lsm_commit(segments) == [flushed |-> segments, segments |-> lsm_compact(<<>>)]

\* ------------------------------------------------------------------ executor
\* The executor's world is [databases, files, heap, lsm, active]: databases
\* maps a name to [tables, pager], files maps the name of a database whose
\* .dat file exists to the file.

FileOf(files, name) == IF name \in DOMAIN files THEN files[name] ELSE NoFile

\* the storage of database name, with its file and the heap
StorageOf(w, name) ==
    [tables |-> w.databases[name].tables, pager |-> w.databases[name].pager,
     file |-> FileOf(w.files, name), heap |-> w.heap]

\* the world after database name's storage became st
WithStorage(w, name, st) ==
    [w EXCEPT !.databases = (name :> [tables |-> st.tables, pager |-> st.pager]) @@ @,
              !.files = IF st.file.exists THEN (name :> st.file) @@ @ ELSE @,
              !.heap = st.heap]

\* _ensure_database without the test: the name gets a new, empty storage
_ensure_database_resetting(w, name) ==
    [w EXCEPT !.databases = (name :> [tables |-> <<>>, pager |-> Pager_init(NoFile, PageSize)])
                                @@ @]

\* SQLExecutor._ensure_database
_ensure_database(w, name) ==
    IF name \in DOMAIN w.databases THEN w
    ELSE With(Pager_init(FileOf(w.files, name), PageSize), LAMBDA pager :
         With(_load(pager, w.heap), LAMBDA loaded :
             [w EXCEPT !.databases = (name :> [tables |-> loaded.tables, pager |-> pager]) @@ @,
                       !.heap = loaded.heap]))

\* " | ".join(cells)
JoinPipe(cells) ==
    LET f[i \in 0..Len(cells)] ==
            IF i = 0 THEN "" ELSE IF i = 1 THEN cells[1] ELSE f[i - 1] \o " | " \o cells[i]
    IN  f[Len(cells)]

\* SQLExecutor._format_rows
_format_rows(rows, requested) ==
    IF rows = <<>> THEN <<"(no rows)">>
    ELSE With(IF IsStar(requested) THEN DKeys(rows[1])
              ELSE [i \in 1..Len(requested) |-> requested[i].name],
              LAMBDA headers :
                  <<JoinPipe(headers)>> \o
                  [i \in 1..Len(rows) |->
                      JoinPipe([j \in 1..Len(headers) |->
                          IF DHas(rows[i], headers[j]) THEN PyStr(DGet(rows[i], headers[j]))
                          ELSE ""])])

Returns(w, lines) == [w |-> w, lines |-> lines, fault |-> ""]
Raises(w, e) == [w |-> w, lines |-> <<>>, fault |-> e]

NotFoundLine(table) == "Table '" \o table \o "' not found."

\* the world after the commit log took entry
Logged(w, entry) == [w EXCEPT !.lsm = lsm_log(@, entry)]

\* the world after _ensure_database(name) and self._active_db = name
EnsuredActive(w, name) == [_ensure_database(w, name) EXCEPT !.active = name]

\* USE that opens the database as ALTER DATABASE does
execute_USE_DATABASE_ensuring(w, details) ==
    Returns(EnsuredActive(w, details.name), <<"Using database '" \o details.name \o "'.">>)

\* SQLExecutor.execute, the USE branch
execute_USE_DATABASE(w, details) ==
    IF details.name \notin DOMAIN w.databases
    THEN Returns(w, <<"Database '" \o details.name \o "' not found.">>)
    ELSE Returns([w EXCEPT !.active = details.name],
                 <<"Using database '" \o details.name \o "'.">>)

\* CREATE TABLE without the table_exists test
execute_CREATE_TABLE_unguarded(w, details) ==
    Returns(WithStorage(w, w.active,
                create_table(StorageOf(w, w.active), details.table,
                    [i \in 1..Len(details.columns) |-> details.columns[i].name])),
            <<"Table '" \o details.table \o "' created.">>)

\* SQLExecutor.execute, the CREATE TABLE branch
execute_CREATE_TABLE(w, details) ==
    IF table_exists(StorageOf(w, w.active).tables, details.table)
    THEN Returns(w, <<"Table '" \o details.table \o "' already exists.">>)
    ELSE Returns(WithStorage(w, w.active,
                     create_table(StorageOf(w, w.active), details.table,
                         [i \in 1..Len(details.columns) |-> details.columns[i].name])),
                 <<"Table '" \o details.table \o "' created.">>)

\* no test before the statements on a table
table_not_found_never(w, details) == FALSE

\* SQLExecutor.execute, the test before the statements on a table: the
\* command names a table and the active database does not hold it
table_not_found(w, details) ==
    /\ "table" \in DOMAIN details
    /\ ~table_exists(StorageOf(w, w.active).tables, details.table)

\* SQLExecutor.execute, the SELECT branch
execute_SELECT(w, details) ==
    IF "columns" \notin DOMAIN details THEN Raises(w, "KeyError")
    ELSE With(StorageOf(w, w.active), LAMBDA storage :
        IF details.join # <<>> /\ ~table_exists(storage.tables, details.join[1].table)
        THEN Returns(w, <<NotFoundLine(details.join[1].table)>>)
        ELSE \* BTreeStorage.select_rows reads self._tables[table]
             IF ~table_exists(storage.tables, details.table) THEN Raises(w, "KeyError")
        ELSE IF _rows_for_raises(storage.tables, details.table, details.where)
        THEN Raises(w, "TypeError")
        ELSE IF details.join # <<>>
                /\ _join_rows_raises(storage, details.table, details.where, details.join[1])
        THEN Raises(WithStorage(w, w.active, _join_rows_raised(storage, details.join[1])),
                    "TypeError")
        ELSE With(select_rows(storage, details.table, details.columns, details.where,
                              details.join),
                  LAMBDA r : Returns(WithStorage(w, w.active, r.st),
                                     _format_rows(r.ret, details.columns))))

\* SQLExecutor.execute, the COMMIT branch
execute_COMMIT(w) ==
    With(lsm_commit(w.lsm), LAMBDA c :
        Returns([w EXCEPT !.lsm = c.segments],
                <<"Committed " \o ToString(Len(c.flushed)) \o " entr"
                    \o (IF Len(c.flushed) = 1 THEN "y" ELSE "ies") \o ".">>))

\* SQLExecutor.execute, the statements on a table the active database holds
execute_on_table(w, storage, cmd, details) ==
    IF cmd = "DROP_TABLE"
    THEN Returns(WithStorage(w, w.active, drop_table(storage, details.table)),
                 <<"Table '" \o details.table \o "' dropped.">>)
    ELSE IF cmd = "DROP_INDEX"
    THEN Returns(WithStorage(w, w.active, drop_index(storage, details.table, details.column)),
                 <<"Index on " \o details.table \o "." \o details.column \o " removed.">>)
    ELSE IF cmd = "ALTER_TABLE" /\ "column" \notin DOMAIN details THEN Raises(w, "KeyError")
    ELSE IF cmd = "INSERT" /\ "values" \notin DOMAIN details THEN Raises(w, "KeyError")
    ELSE \* the storage operations below read self._tables[table]
         IF "table" \in DOMAIN details /\ ~table_exists(storage.tables, details.table)
         THEN Raises(w, "KeyError")
    ELSE IF cmd = "ALTER_TABLE"
    THEN IF add_column_raises(storage, details.table, details.column.name)
         THEN Raises(WithStorage(w, w.active,
                         add_column(storage, details.table, details.column.name)),
                     "TypeError")
         ELSE Returns(WithStorage(w, w.active,
                          add_column(storage, details.table, details.column.name)),
                      <<"Column '" \o details.column.name \o "' added to '"
                          \o details.table \o "'.">>)
    ELSE IF cmd = "CREATE_INDEX"
    THEN IF create_index_raises(storage, details.table, details.column)
         THEN Raises(w, "TypeError")
         ELSE Returns(WithStorage(w, w.active,
                          create_index(storage, details.table, details.column)),
                      <<"Index on " \o details.table \o "." \o details.column \o " built.">>)
    ELSE IF cmd = "INSERT"
    THEN With(insert_row(storage, details.table, details.values), LAMBDA r :
             IF r.fault # "" THEN Raises(WithStorage(w, w.active, r.st), r.fault)
             ELSE Returns(Logged(WithStorage(w, w.active, r.st),
                              [db |-> w.active, command |-> "INSERT", row |-> r.ret]),
                          <<"1 row inserted.">>))
    ELSE IF cmd = "UPDATE"
    THEN IF _rows_for_raises(storage.tables, details.table, details.where)
         THEN Raises(w, "TypeError")
         ELSE With(update_rows(storage, details.table, details.assignments, details.where),
                   LAMBDA r :
                       IF r.fault # "" THEN Raises(WithStorage(w, w.active, r.st), r.fault)
                       ELSE Returns(Logged(WithStorage(w, w.active, r.st),
                                        [db |-> w.active, command |-> "UPDATE",
                                         count |-> r.ret]),
                                    <<ToString(r.ret) \o " row(s) updated.">>))
    ELSE With(delete_rows(storage, details.table, details.where), LAMBDA r :
             IF r.fault # "" THEN Raises(WithStorage(w, w.active, r.st), r.fault)
             ELSE Returns(Logged(WithStorage(w, w.active, r.st),
                              [db |-> w.active, command |-> "DELETE", count |-> r.ret]),
                          <<ToString(r.ret) \o " row(s) deleted.">>))

\* SQLExecutor.execute on a parsed command: the world afterwards and the
\* lines returned, or the exception raised
execute(w, parsed) ==
    IF parsed.command = "EMPTY" THEN Returns(w, <<"">>)
    ELSE IF parsed.command = "CREATE_DATABASE"
    THEN Returns(EnsuredActive(w, parsed.details.name),
                 <<"Database '" \o parsed.details.name \o "' ready.">>)
    ELSE IF parsed.command = "ALTER_DATABASE"
    THEN Returns(EnsuredActive(w, parsed.details.name),
                 <<"Using database '" \o parsed.details.name \o "'.">>)
    ELSE IF parsed.command = "USE_DATABASE" THEN execute_USE_DATABASE(w, parsed.details)
    ELSE IF parsed.command = "CREATE_TABLE" THEN execute_CREATE_TABLE(w, parsed.details)
    ELSE IF table_not_found(w, parsed.details)
    THEN Returns(w, <<NotFoundLine(parsed.details.table)>>)
    ELSE IF parsed.command = "SELECT" THEN execute_SELECT(w, parsed.details)
    ELSE IF parsed.command = "COMMIT" THEN execute_COMMIT(w)
    ELSE IF parsed.command \in {"ALTER_TABLE", "DROP_TABLE", "CREATE_INDEX", "DROP_INDEX",
                                "INSERT", "UPDATE", "DELETE"}
    THEN execute_on_table(w, StorageOf(w, w.active), parsed.command, parsed.details)
    ELSE Returns(w, <<"Command '" \o parsed.raw \o "' not understood.">>)

\* DatabaseEngine.execute, after the query is parsed: execute the command
engine_execute(w, parsed) ==
    IF parsed.fault # "" THEN Raises(w, parsed.fault) ELSE execute(w, parsed)

\* ------------------------------------------------------------------ state

VARIABLES
    databases,   \* SQLExecutor._databases: name -> [tables, pager]
    files,       \* the data directory: name -> the file <name>.dat
    heap,        \* the row objects: object id -> dict
    lsm,         \* LSMTreeStorage._segments
    active_db,   \* SQLExecutor._active_db
    query,       \* the query of the last call
    command,     \* the kind of the command parse returned for it, "" when none
    result,      \* the lines execute returned
    fault,       \* the exception the call raised, "" when it returned
    mutations,   \* history: INSERT/UPDATE/DELETE statements that ran on a table since the last COMMIT
    seen,        \* history: each pending log entry as it read when it was appended
    blob,        \* history: the payload of the last write_blob of the runs of the Pager alone
    stage,       \* history: how many statements of the scenario the last calls ran, in its order
    issued       \* history: the INSERT/UPDATE/DELETE statements that ran on a table since the last COMMIT

vars == <<databases, files, heap, lsm, active_db, query, command, result, fault, mutations, seen,
          blob, stage, issued>>

World == [databases |-> databases, files |-> files, heap |-> heap, lsm |-> lsm,
          active |-> active_db]

\* SQLExecutor.__init__ on an empty data directory
FreshWorld ==
    EnsuredActive([databases |-> <<>>, files |-> <<>>, heap |-> <<>>, lsm |-> <<>>,
                   active |-> "default"], "default")

Init ==
    /\ \E w \in {FreshWorld} :
           /\ databases = w.databases
           /\ files = w.files
           /\ heap = w.heap
           /\ lsm = w.lsm
           /\ active_db = w.active
    /\ query = <<>>
    /\ command = ""
    /\ result = <<>>
    /\ fault = ""
    /\ mutations = 0
    /\ seen = <<>>
    /\ issued = <<>>
    /\ blob = <<>>
    /\ stage = 0

\* the row objects a table record refers to: its rows and the rows its
\* indexes hold
Referenced(t) ==
    Range(t.rows) \cup UNION {Range(t.indexes[c][v]) : <<c, v>> \in
                                 UNION {{c} \X DOMAIN t.indexes[c] : c \in DOMAIN t.indexes}}

\* the row objects still referenced by a table or by a pending log entry
Live(w) ==
    UNION {UNION {Referenced(w.databases[d].tables[i]) : i \in 1..Len(w.databases[d].tables)} :
              d \in DOMAIN w.databases}
    \cup {w.lsm[i].row : i \in {j \in 1..Len(w.lsm) : w.lsm[j].command = "INSERT"}}

\* a log entry as lsm_entries() shows it: an INSERT entry holds the row object
Observed(w, entry) ==
    IF entry.command = "INSERT"
    THEN [db |-> entry.db, command |-> entry.command, row |-> w.heap[entry.row]]
    ELSE entry

\* the command is an INSERT, UPDATE or DELETE on a table of the active database
RunsOnTable(w, parsed) ==
    /\ parsed.fault = ""
    /\ parsed.command \in {"INSERT", "UPDATE", "DELETE"}
    /\ "table" \in DOMAIN parsed.details
    /\ table_exists(w.databases[w.active].tables, parsed.details.table)

\* the bounds of a run: a table holds at most maxRows rows and the log at
\* most maxPending pending entries
WithinBounds(w, parsed, maxRows, maxPending) ==
    RunsOnTable(w, parsed) =>
        /\ Len(w.lsm) < maxPending
        /\ parsed.command = "INSERT" =>
               Len(TGet(w.databases[w.active].tables, parsed.details.table).rows) < maxRows

\* the number of rows of the statement's table that its WHERE matches in w
\* (every row when it has none); 1 for an INSERT
Matching(w, parsed) ==
    IF parsed.command = "INSERT" THEN 1
    ELSE With(TGet(w.databases[w.active].tables, parsed.details.table), LAMBDA t :
             IF parsed.details.where = <<>> THEN Len(t.rows)
             ELSE Cardinality({j \in 1..Len(t.rows) :
                      DGet(w.heap[t.rows[j]], parsed.details.where[1].column)
                          = parsed.details.where[1].value}))

\* the state after a call that ended as r (the world, the lines, the fault)
Outcome(parsed, r) ==
    /\ databases' = r.w.databases
    /\ files' = r.w.files
    /\ heap' = [o \in DOMAIN r.w.heap \cap Live(r.w) |-> r.w.heap[o]]
    /\ lsm' = r.w.lsm
    /\ active_db' = r.w.active
    /\ result' = r.lines
    /\ fault' = r.fault
    /\ mutations' = IF r.fault = "" /\ parsed.command = "COMMIT" THEN 0
                    ELSE IF r.fault = "" /\ RunsOnTable(World, parsed) THEN mutations + 1
                    ELSE mutations
    /\ seen' = IF Len(r.w.lsm) = Len(lsm) + 1
               THEN Append(seen, Observed(r.w, r.w.lsm[Len(r.w.lsm)]))
               ELSE IF r.w.lsm = <<>> THEN <<>>
               ELSE seen
    /\ blob' = blob
    /\ issued' = IF r.fault = "" /\ parsed.command = "COMMIT" THEN <<>>
                 ELSE IF r.fault = "" /\ RunsOnTable(World, parsed)
                 THEN Append(issued, [db |-> active_db, command |-> parsed.command,
                                      count |-> Matching(World, parsed)])
                 ELSE issued

\* the scenario starts with its first statement on a database without the
\* table users, goes on with each next statement, and is over with any other
StageAfter(q) ==
    IF stage >= 1 /\ stage < Len(Scenario) /\ q = Scenario[stage + 1] THEN stage + 1
    ELSE IF q = Scenario[1] /\ ~table_exists(databases[active_db].tables, "users") THEN 1
    ELSE 0

\* one call of DatabaseEngine.execute(q): parse, then execute
Step(q, maxRows, maxPending) ==
    \E parsed \in {ParseOf(q)} :
        /\ WithinBounds(World, parsed, maxRows, maxPending)
        /\ \E r \in {engine_execute(World, parsed)} : Outcome(parsed, r)
        /\ command' = parsed.command
        /\ stage' = StageAfter(q)

\* ---- runs over databases, one table and missing tables
DatabaseStatement ==
    \E q \in DatabaseQueries : query' = q /\ Step(q, MaxRows, MaxPending)
SchemaStatement ==
    \E q \in SchemaQueries : query' = q /\ Step(q, MaxRows, MaxPending)
DataStatement ==
    \E q \in DataQueries : query' = q /\ Step(q, MaxRows, MaxPending)
SelectStatement ==
    \E q \in SelectQueries : query' = q /\ Step(q, MaxRows, MaxPending)
CommitStatement ==
    \E q \in CommitQueries : query' = q /\ Step(q, MaxRows, MaxPending)
MissingTableStatement ==
    \E q \in MissingTableQueries : query' = q /\ Step(q, MaxRows, MaxPending)
MalformedStatement ==
    \E q \in MalformedQueries : query' = q /\ Step(q, MaxRows, MaxPending)

Next ==
    \/ DatabaseStatement
    \/ SchemaStatement
    \/ DataStatement
    \/ SelectStatement
    \/ CommitStatement
    \/ MissingTableStatement
    \/ MalformedStatement

Spec == Init /\ [][Next]_vars

\* ---- runs on the commit log
LogSchemaStatement ==
    \E q \in LogSchemaQueries : query' = q /\ Step(q, LogMaxRows, LogMaxPending)
LogDataStatement ==
    \E q \in LogDataQueries : query' = q /\ Step(q, LogMaxRows, LogMaxPending)
LogIdleStatement ==
    \E q \in IdleQueries : query' = q /\ Step(q, LogMaxRows, LogMaxPending)
LogCommitStatement ==
    \E q \in CommitQueries : query' = q /\ Step(q, LogMaxRows, LogMaxPending)

NextLog ==
    \/ LogSchemaStatement
    \/ LogDataStatement
    \/ LogIdleStatement
    \/ LogCommitStatement

SpecLog == Init /\ [][NextLog]_vars

\* ---- runs on two tables with an index and a join
JoinSchemaStatement ==
    \E q \in JoinSchemaQueries : query' = q /\ Step(q, JoinMaxRows, JoinMaxPending)
JoinIndexStatement ==
    \E q \in JoinIndexQueries : query' = q /\ Step(q, JoinMaxRows, JoinMaxPending)
JoinDataStatement ==
    \E q \in JoinDataQueries : query' = q /\ Step(q, JoinMaxRows, JoinMaxPending)
JoinSelectStatement ==
    \E q \in JoinSelectQueries : query' = q /\ Step(q, JoinMaxRows, JoinMaxPending)
JoinCommitStatement ==
    \E q \in CommitQueries : query' = q /\ Step(q, JoinMaxRows, JoinMaxPending)

NextJoin ==
    \/ JoinSchemaStatement
    \/ JoinIndexStatement
    \/ JoinDataStatement
    \/ JoinSelectStatement
    \/ JoinCommitStatement

SpecJoin == Init /\ [][NextJoin]_vars

\* ---- runs of the parser alone: SQLParser.parse on each input
InitParse ==
    /\ Init
    /\ command = ""

ParseInput ==
    /\ command = "" /\ fault = ""
    /\ \E q \in ParseInputs :
           /\ query' = q
           /\ command' = ParseOf(q).command
           /\ fault' = ParseOf(q).fault
    /\ UNCHANGED <<databases, files, heap, lsm, active_db, result, mutations, seen, blob,
                   stage, issued>>

NextParse == ParseInput

SpecParse == InitParse /\ [][NextParse]_vars

\* ---- runs of the parser alone on the statements written in any case
CaseInput ==
    /\ command = "" /\ fault = ""
    /\ \E q \in CaseInputs :
           /\ query' = q
           /\ command' = ParseOf(q).command
           /\ fault' = ParseOf(q).fault
    /\ UNCHANGED <<databases, files, heap, lsm, active_db, result, mutations, seen, blob,
                   stage, issued>>

NextCase == CaseInput

SpecCase == InitParse /\ [][NextCase]_vars

\* ---- runs on a table whose cells may hold a list
ListSchemaStatement ==
    \E q \in ListSchemaQueries : query' = q /\ Step(q, ListMaxRows, ListMaxPending)
ListDataStatement ==
    \E q \in ListDataQueries : query' = q /\ Step(q, ListMaxRows, ListMaxPending)
ListSelectStatement ==
    \E q \in ListSelectQueries : query' = q /\ Step(q, ListMaxRows, ListMaxPending)
ListCommitStatement ==
    \E q \in CommitQueries : query' = q /\ Step(q, ListMaxRows, ListMaxPending)

NextList ==
    \/ ListSchemaStatement
    \/ ListDataStatement
    \/ ListSelectStatement
    \/ ListCommitStatement

SpecList == Init /\ [][NextList]_vars

\* ---- runs that fill the commit log from two databases
\* the bounds of these runs: the first TraceVaried pending entries come from
\* any statement, the later ones from DELETE statements in database d2
TraceWithin(w, parsed) ==
    (RunsOnTable(w, parsed) /\ Len(w.lsm) >= TraceVaried)
        => (parsed.command = "DELETE" /\ w.active = "d2")

TraceDatabaseStatement ==
    \E q \in TraceDatabaseQueries : query' = q /\ Step(q, TraceMaxRows, TraceMaxPending)
TraceSchemaStatement ==
    \E q \in TraceSchemaQueries : query' = q /\ Step(q, TraceMaxRows, TraceMaxPending)
TraceDataStatement ==
    \E q \in TraceDataQueries :
        query' = q /\ TraceWithin(World, ParseOf(q)) /\ Step(q, TraceMaxRows, TraceMaxPending)
TraceCommitStatement ==
    \E q \in CommitQueries : query' = q /\ Step(q, TraceMaxRows, TraceMaxPending)

NextTrace ==
    \/ TraceDatabaseStatement
    \/ TraceSchemaStatement
    \/ TraceDataStatement
    \/ TraceCommitStatement

SpecTrace == Init /\ [][NextTrace]_vars

\* ---- runs on two databases
DbDatabaseStatement ==
    \E q \in DbDatabaseQueries : query' = q /\ Step(q, MaxRows, MaxPending)
DbTableStatement ==
    \E q \in DbTableQueries : query' = q /\ Step(q, MaxRows, MaxPending)
DbCommitStatement ==
    \E q \in CommitQueries : query' = q /\ Step(q, MaxRows, MaxPending)

NextDb ==
    \/ DbDatabaseStatement
    \/ DbTableStatement
    \/ DbCommitStatement

SpecDb == Init /\ [][NextDb]_vars

\* ---- runs on the rows of one table
DataSchemaStatement ==
    \E q \in DataSchemaQueries : query' = q /\ Step(q, DataMaxRows, DataMaxPending)
DataInsertStatement ==
    \E q \in DataInsertQueries : query' = q /\ Step(q, DataMaxRows, DataMaxPending)
DataUpdateStatement ==
    \E q \in DataUpdateQueries : query' = q /\ Step(q, DataMaxRows, DataMaxPending)
DataDeleteStatement ==
    \E q \in DataDeleteQueries : query' = q /\ Step(q, DataMaxRows, DataMaxPending)
DataCommitStatement ==
    \E q \in CommitQueries : query' = q /\ Step(q, DataMaxRows, DataMaxPending)

NextData ==
    \/ DataSchemaStatement
    \/ DataInsertStatement
    \/ DataUpdateStatement
    \/ DataDeleteStatement
    \/ DataCommitStatement

SpecData == Init /\ [][NextData]_vars

\* ---- runs of the statements of the scenario, in any order
UsersStatement ==
    \E q \in UsersQueries : query' = q /\ Step(q, UsersMaxRows, UsersMaxPending)
UsersCommitStatement ==
    \E q \in CommitQueries : query' = q /\ Step(q, UsersMaxRows, UsersMaxPending)

NextUsers ==
    \/ UsersStatement
    \/ UsersCommitStatement

SpecUsers == Init /\ [][NextUsers]_vars

\* ---- runs of the Pager alone, on the file default.dat
PagerBytes == {<<"s", "a">>, ZeroByte}

Payloads == UNION {[1..n -> PagerBytes] : n \in 0..MaxBlob}

\* pager.write_blob(b)
PagerWrite ==
    /\ \E b \in Payloads :
           \E r \in {Pager_write_blob(databases["default"].pager, FileOf(files, "default"), b)} :
               /\ databases' = [databases EXCEPT !["default"].pager = r.pager]
               /\ files' = IF r.file.exists THEN ("default" :> r.file) @@ files ELSE files
               /\ blob' = b
    /\ UNCHANGED <<heap, lsm, active_db, query, command, result, fault, mutations, seen,
                   stage, issued>>

\* pager = Pager(path, page_size): a new Pager over the same file
PagerOpen ==
    /\ \E page_size \in 1..MaxPageSize :
           databases' = [databases EXCEPT
                            !["default"].pager = Pager_init(FileOf(files, "default"), page_size)]
    /\ UNCHANGED <<files, heap, lsm, active_db, query, command, result, fault, mutations, seen,
                   blob, stage, issued>>

NextPager ==
    \/ PagerWrite
    \/ PagerOpen

SpecPager == Init /\ [][NextPager]_vars

\* ------------------------------------------------------------------ properties

\* a call left every database's tables, rows, indexes and file, the commit
\* log and the active database as they were
Untouched ==
    /\ databases' = databases
    /\ files' = files
    /\ heap' = heap
    /\ lsm' = lsm
    /\ active_db' = active_db

ActiveTables == databases[active_db].tables

\* the Table Manager a new BTreeStorage builds over database d's file
\* through a new Pager
Reloaded(d) == _load(Pager_init(FileOf(files, d), PageSize), <<>>)

\* the rows of every table, by value
RowsOf(T, H) ==
    {[name |-> T[i].name, rows |-> [j \in 1..Len(T[i].rows) |-> H[T[i].rows[j]]]] :
        i \in 1..Len(T)}

\* C1: for every database, the Table Manager rebuilt from the database's
\* file has the same describe() output (columns, row count, indexed columns
\* per table) and the same rows as the instance the statements ran against.
C1_RoundTrip ==
    \A d \in DOMAIN databases :
        /\ describe(Reloaded(d).tables) = describe(databases[d].tables)
        /\ RowsOf(Reloaded(d).tables, Reloaded(d).heap) = RowsOf(databases[d].tables, heap)

\* the values a WHERE clause is probed with
ProbeValues == {IntV("1"), IntV("2"), ListV("[1]")}

\* the tables with the index on table name's column col removed
WithoutIndex(T, name, col) ==
    [i \in 1..Len(T) |->
        IF T[i].name = name
        THEN [T[i] EXCEPT !.indexes = [c \in (DOMAIN T[i].indexes) \ {col} |-> T[i].indexes[c]]]
        ELSE T[i]]

\* C2: in every reachable state, for every table, column and value, the
\* rows WHERE col = v selects (for SELECT and for UPDATE alike) are found
\* without a fault and are the same rows with the table's index on col as
\* without it.
C2_IndexTransparency ==
    \A i \in 1..Len(ActiveTables), col \in {"k", "x"}, v \in ProbeValues :
        /\ ~_rows_for_raises(ActiveTables, ActiveTables[i].name,
                             <<[column |-> col, value |-> v]>>)
        /\ _rows_for(ActiveTables, heap, ActiveTables[i].name,
                     <<[column |-> col, value |-> v]>>)
             = _rows_for(WithoutIndex(ActiveTables, ActiveTables[i].name, col), heap,
                         ActiveTables[i].name, <<[column |-> col, value |-> v]>>)

\* the report of a COMMIT that flushed n entries
CommitLine(n) ==
    "Committed " \o ToString(n) \o " entr" \o (IF n = 1 THEN "y" ELSE "ies") \o "."

\* C3: every COMMIT leaves the commit log empty and reports as its count the
\* number of INSERT, UPDATE and DELETE statements that ran since the
\* previous COMMIT (or since the start).
C3_CommitDrains ==
    [][ParseOf(query').command = "COMMIT" =>
          /\ lsm' = <<>>
          /\ fault' = ""
          /\ result' = <<CommitLine(mutations)>>]_vars

C3_Witness ==
    /\ query = <<"COMMIT">>
    /\ result = <<"Committed 3 entries.">>
    /\ lsm = <<>>

\* the pairs (row of a, row of b) with equal k
JoinPairs(A, B) ==
    {p \in (1..Len(A.rows)) \X (1..Len(B.rows)) :
        DGet(heap[A.rows[p[1]]], "k") = DGet(heap[B.rows[p[2]]], "k")}

\* the line of the result for a pair: the cells of the row of a, then those
\* of the row of b
JoinLine(A, B, p) ==
    JoinPipe([c \in 1..Len(A.columns) |-> PyStr(DGet(heap[A.rows[p[1]]], A.columns[c]))]
             \o [c \in 1..Len(B.columns) |-> PyStr(DGet(heap[B.rows[p[2]]], B.columns[c]))])

\* the number of times line occurs in lines
Occurrences(lines, line) == Cardinality({i \in 1..Len(lines) : lines[i] = line})

\* the result of the join lists exactly one line per pair of pairs
ListsPairs(A, B, lines) ==
    IF JoinPairs(A, B) = {} THEN lines = <<"(no rows)">>
    ELSE /\ Len(lines) = 1 + Cardinality(JoinPairs(A, B))
         /\ \A i \in 2..Len(lines) :
                Occurrences(Tail(lines), lines[i])
                    = Cardinality({p \in JoinPairs(A, B) : JoinLine(A, B, p) = lines[i]})
         /\ \A p \in JoinPairs(A, B) : Occurrences(Tail(lines), JoinLine(A, B, p)) >= 1

\* C4: SELECT * FROM a INNER JOIN b ON a.k = b.k, on tables a and b that
\* exist, returns one combined row for each pair (row of a, row of b) with
\* equal k and no other row, and no row when no k values match.
C4_JoinCorrect ==
    (/\ query = JoinQuery
     /\ table_exists(ActiveTables, "a")
     /\ table_exists(ActiveTables, "b"))
        => /\ fault = ""
           /\ ListsPairs(TGet(ActiveTables, "a"), TGet(ActiveTables, "b"), result)

\* a key held twice on both sides gave the full product
C4_Witness ==
    /\ query = JoinQuery
    /\ result = <<"a.k | b.k", "1 | 1", "1 | 1", "1 | 1", "1 | 1">>

\* C5: execute(query) never raises: every call returns lines, and a
\* statement with a malformed remainder returns a line.
C5_NoFault ==
    /\ fault = ""
    /\ query \in MalformedQueries => result # <<>>

\* the kinds of statement that name a table
TableKinds ==
    {"ALTER_TABLE", "DROP_TABLE", "CREATE_INDEX", "DROP_INDEX", "INSERT", "UPDATE", "DELETE",
     "SELECT"}

TableNames == {"a", "b", "ghost"}

\* the command is a statement on table T
NamesTable(parsed, T) ==
    /\ parsed.fault = ""
    /\ parsed.command \in TableKinds
    /\ "table" \in DOMAIN parsed.details
    /\ parsed.details.table = T

\* the command is a SELECT whose INNER JOIN table is T
JoinsTable(parsed, T) ==
    /\ parsed.fault = ""
    /\ parsed.command = "SELECT"
    /\ "join" \in DOMAIN parsed.details
    /\ parsed.details.join # <<>>
    /\ parsed.details.join[1].table = T

ReportsNotFound(T) ==
    /\ result' = <<NotFoundLine(T)>>
    /\ fault' = ""
    /\ Untouched

\* C6 as stated: when the active database has no table T, every statement
\* naming T and every SELECT whose INNER JOIN table is T returns
\* "Table 'T' not found." and changes nothing.
C6_AsStated ==
    [][\A T \in TableNames :
          (/\ ~table_exists(ActiveTables, T)
           /\ NamesTable(ParseOf(query'), T) \/ JoinsTable(ParseOf(query'), T))
              => ReportsNotFound(T)]_vars

\* C6: when the active database has no table T, every statement naming T,
\* and every SELECT whose FROM table exists and whose INNER JOIN table is T,
\* returns "Table 'T' not found." and changes nothing.
C6_MissingTable ==
    [][\A T \in TableNames :
          (/\ ~table_exists(ActiveTables, T)
           /\ \/ NamesTable(ParseOf(query'), T)
              \/ /\ JoinsTable(ParseOf(query'), T)
                 /\ table_exists(ActiveTables, ParseOf(query').details.table))
              => ReportsNotFound(T)]_vars

C6_Witness ==
    /\ ParseOf(query).fault = ""
    /\ JoinsTable(ParseOf(query), "ghost")
    /\ table_exists(ActiveTables, "a")
    /\ result = <<"Table 'ghost' not found.">>
    /\ lsm # <<>>

\* C7: a pending commit-log entry reads, at every later observation, as it
\* read when it was appended.
C7_EntriesImmutable ==
    \A i \in 1..Len(lsm) : Observed(World, lsm[i]) = seen[i]

\* C8: CREATE TABLE t on a database that has table t returns
\* "Table 't' already exists." and changes nothing.
C8_CreateTableIdempotent ==
    [][(/\ ParseOf(query').fault = ""
        /\ ParseOf(query').command = "CREATE_TABLE"
        /\ table_exists(ActiveTables, ParseOf(query').details.table))
           => /\ result' = <<"Table '" \o ParseOf(query').details.table \o "' already exists.">>
              /\ fault' = ""
              /\ Untouched]_vars

\* a CREATE TABLE with another column list on a table with a row and an index
C8_Witness ==
    /\ query = <<"CREATE", "TABLE", "a", "(", "k", "INT", ",", "x", "TEXT", ")">>
    /\ result = <<"Table 'a' already exists.">>
    /\ table_exists(ActiveTables, "a")
    /\ TGet(ActiveTables, "a").columns = <<"k">>
    /\ TGet(ActiveTables, "a").rows # <<>>
    /\ "k" \in DOMAIN TGet(ActiveTables, "a").indexes

\* C9: parse never raises, and blank input yields kind EMPTY.
C9_ParseTotal ==
    /\ fault = ""
    /\ (query = <<>> /\ command # "") => command = "EMPTY"

\* C10: USE n, where n names no database, returns "Database 'n' not found."
\* and leaves the active database and the set of databases unchanged.
C10_UseUnknown ==
    [][(/\ ParseOf(query').fault = ""
        /\ ParseOf(query').command = "USE_DATABASE"
        /\ ParseOf(query').details.name \notin DOMAIN databases)
           => /\ result' = <<"Database '" \o ParseOf(query').details.name \o "' not found.">>
              /\ fault' = ""
              /\ active_db' = active_db
              /\ DOMAIN databases' = DOMAIN databases
              /\ Untouched]_vars

C10_Witness ==
    /\ query = <<"USE", "reports">>
    /\ result = <<"Database 'reports' not found.">>
    /\ active_db = "d2"
    /\ DOMAIN databases = {"default", "d2"}

\* the call left database d as it was: its tables, rows, indexes and file
SameDatabase(d) ==
    /\ d \in DOMAIN databases'
    /\ databases'[d] = databases[d]
    /\ RowsOf(databases'[d].tables, heap') = RowsOf(databases[d].tables, heap)
    /\ FileOf(files', d) = FileOf(files, d)

\* CREATE DATABASE n or ALTER DATABASE n leaves n open and active, and every
\* database that existed (n included) as it was
SwitchesTo(n) ==
    /\ fault' = ""
    /\ n \in DOMAIN databases'
    /\ active_db' = n
    /\ \A d \in DOMAIN databases : SameDatabase(d)

\* a statement that is no database statement keeps the active database and
\* leaves every other database as it was
TargetsActive ==
    /\ active_db' = active_db
    /\ DOMAIN databases' = DOMAIN databases
    /\ \A d \in (DOMAIN databases) \ {active_db} : SameDatabase(d)

\* C11: after CREATE DATABASE n or ALTER DATABASE n, n is a database and the
\* active one, every database that existed before (n included) has its
\* tables, rows and indexes unchanged, and every other statement acts on the
\* active database only and leaves it active.
C11_DatabaseSwitch ==
    [][With(ParseOf(query'), LAMBDA p :
          p.fault = "" =>
              IF p.command \in {"CREATE_DATABASE", "ALTER_DATABASE"}
              THEN SwitchesTo(p.details.name)
              ELSE p.command # "USE_DATABASE" => TargetsActive)]_vars

\* CREATE DATABASE d2 on a run where d2 already held a table with a row and
\* default held a table too
C11_Witness ==
    /\ query = <<"CREATE", "DATABASE", "d2">>
    /\ active_db = "d2"
    /\ table_exists(databases["d2"].tables, "a")
    /\ TGet(databases["d2"].tables, "a").rows # <<>>
    /\ table_exists(databases["default"].tables, "a")
    /\ TGet(databases["default"].tables, "a").rows = <<>>

\* the Pager of the runs of the Pager alone
ThePager == databases["default"].pager

\* C12: after write_blob(b), on the same Pager and on every Pager opened
\* over the file afterwards with any page size, read_blob() returns b, the
\* empty payload included, and the Pager holds ceil(len(b) / page_size)
\* pages of page_size bytes each; a later write_blob replaces the payload.
C12_PagerRoundTrip ==
    /\ Pager_read_blob(ThePager) = blob
    /\ Len(ThePager.pages) = (Len(blob) + ThePager.page_size - 1) \div ThePager.page_size
    /\ \A i \in 1..Len(ThePager.pages) : Len(ThePager.pages[i]) = ThePager.page_size

\* a payload of three bytes that ends in a zero byte, on two pages of two
\* bytes, the second one padded
C12_Witness ==
    /\ blob = <<<<"s", "a">>, <<"s", "a">>, ZeroByte>>
    /\ ThePager.page_size = 2
    /\ ThePager.pages = <<<<<<"s", "a">>, <<"s", "a">>>>, <<ZeroByte, ZeroByte>>>>
    /\ files["default"].header[1].page_size = 2

\* C13: in every reachable state, no table's column sequence holds a name
\* twice.
C13_NoDuplicateColumns ==
    \A d \in DOMAIN databases :
        \A i \in 1..Len(databases[d].tables) :
            \A m, n \in 1..Len(databases[d].tables[i].columns) :
                databases[d].tables[i].columns[m] = databases[d].tables[i].columns[n] => m = n

\* the lines the scenario expects of each of its statements
ScenarioLines ==
    << <<"Table 'users' created.">>,
       <<"1 row inserted.">>,
       <<"id | name", "1 | Ann">>,
       <<"1 row(s) updated.">>,
       <<"1 row(s) deleted.">>,
       <<"(no rows)">> >>

\* C14: on a database without table users, the statements of the scenario,
\* run in its order, return its lines: created, 1 row inserted, the header
\* and the row 1 | Ann, 1 row(s) updated, 1 row(s) deleted, (no rows).
C14_Scenario ==
    stage >= 1 => fault = "" /\ result = ScenarioLines[stage]

\* the whole scenario ran
C14_Witness ==
    /\ stage = Len(Scenario)
    /\ query = Scenario[Len(Scenario)]
    /\ result = <<"(no rows)">>

\* C15: a recognised statement parses to the same command kind and the same
\* payload whatever the letter case of its keywords and of its table and
\* database names.
C15_CaseInsensitive ==
    query \in CaseInputs /\ query # <<>>
        => With(ParseOf(query), LAMBDA p :
           With(ParseOf(WrittenPlainly(query)), LAMBDA plain :
               /\ p.fault = ""
               /\ p.command = plain.command
               /\ p.details = plain.details))

\* C16: every index of every table maps each value of its column to the
\* table's current rows holding it, in row order, and to nothing else.
C16_IndexConsistent ==
    \A d \in DOMAIN databases : \A i \in 1..Len(databases[d].tables) :
        With(databases[d].tables[i], LAMBDA t :
            \A c \in DOMAIN t.indexes :
                /\ DOMAIN t.indexes[c] = {DGet(heap[t.rows[j]], c) : j \in 1..Len(t.rows)}
                /\ \A v \in DOMAIN t.indexes[c] :
                       t.indexes[c][v] = SelectSeq(t.rows, LAMBDA o : DGet(heap[o], c) = v))

\* C17: the pending log entries are, in execution order, one entry per
\* INSERT, UPDATE and DELETE statement that ran on an existing table since
\* the last COMMIT, each with the database that was active and, for UPDATE
\* and DELETE, the number of rows the statement matched (0 included).
C17_LogIsIssued ==
    /\ Len(lsm) = Len(issued)
    /\ \A i \in 1..Len(lsm) :
           /\ lsm[i].db = issued[i].db
           /\ lsm[i].command = issued[i].command
           /\ lsm[i].command \in {"UPDATE", "DELETE"} => lsm[i].count = issued[i].count

\* more than 10 entries are pending, from both databases, one of them an
\* UPDATE or DELETE of no row
C17_Witness ==
    /\ Len(lsm) > 10
    /\ {lsm[i].db : i \in 1..Len(lsm)} = {"default", "d2"}
    /\ \E i \in 1..Len(lsm) : lsm[i].command = "UPDATE" /\ lsm[i].count = 0
    /\ \E i \in 1..Len(lsm) : lsm[i].command = "DELETE" /\ lsm[i].count = 1
    /\ query = <<"SELECT", "*", "FROM", "a">>

\* the snapshot read back from database d's file through a new Pager: the
\* header, the pages, the truncation to the recorded length, the JSON text
Decoded(d) ==
    With(Pager_read_blob(Pager_init(FileOf(files, d), PageSize)), LAMBDA b :
        IF b = <<>> THEN <<>> ELSE Loads(b))

\* C18: for every database whose file has been written, the file decodes to
\* the tables the database holds in memory: the same tables, columns, rows
\* and sets of indexed columns.
C18_DiskAgrees ==
    \A d \in DOMAIN databases \cap DOMAIN files :
        With(Decoded(d), LAMBDA data :
        With(databases[d].tables, LAMBDA T :
            /\ Len(data) = Len(T)
            /\ \A i \in 1..Len(T) :
                   /\ data[i].name = T[i].name
                   /\ data[i].meta.columns = T[i].columns
                   /\ data[i].meta.rows = [j \in 1..Len(T[i].rows) |-> heap[T[i].rows[j]]]
                   /\ Range(data[i].meta.indexes) = DOMAIN T[i].indexes))

\* the row object o matches the WHERE clause where (every row when none)
Matches(H, o, where) ==
    where = <<>> \/ DGet(H[o], where[1].column) = where[1].value

\* C19: an UPDATE on a table of the active database keeps the table's
\* columns and its rows in their order, gives every row that matched the
\* WHERE before it each assigned value and leaves its other columns as they
\* were, leaves every other row as it was, and reports the number of rows
\* that matched.
C19_UpdateFrame ==
    [][With(ParseOf(query'), LAMBDA p :
          (/\ p.fault = "" /\ p.command = "UPDATE"
           /\ table_exists(databases[active_db].tables, p.details.table))
          => With(TGet(databases[active_db].tables, p.details.table), LAMBDA t :
                 /\ fault' = ""
                 /\ active_db' = active_db
                 /\ table_exists(databases'[active_db].tables, p.details.table)
                 /\ TGet(databases'[active_db].tables, p.details.table).columns = t.columns
                 /\ TGet(databases'[active_db].tables, p.details.table).rows = t.rows
                 /\ \A o \in Range(t.rows) :
                        IF Matches(heap, o, p.details.where)
                        THEN /\ \A c \in Range(DKeys(p.details.assignments)) :
                                    /\ DHas(heap'[o], c)
                                    /\ DGet(heap'[o], c) = DGet(p.details.assignments, c)
                             /\ \A c \in Range(DKeys(heap[o])) \ Range(DKeys(p.details.assignments)) :
                                    /\ DHas(heap'[o], c)
                                    /\ DGet(heap'[o], c) = DGet(heap[o], c)
                             /\ Range(DKeys(heap'[o]))
                                    = Range(DKeys(heap[o])) \cup Range(DKeys(p.details.assignments))
                        ELSE heap'[o] = heap[o]
                 /\ result' = <<ToString(Cardinality({j \in 1..Len(t.rows) :
                                     Matches(heap, t.rows[j], p.details.where)}))
                                    \o " row(s) updated.">>))]_vars

\* an UPDATE of the indexed WHERE column has changed one row of two
C19_Witness ==
    /\ query = <<"UPDATE", "a", "SET", "k", "=", "2", "WHERE", "k", "=", "1">>
    /\ result = <<"1 row(s) updated.">>
    /\ table_exists(ActiveTables, "a")
    /\ "k" \in DOMAIN TGet(ActiveTables, "a").indexes
    /\ Len(TGet(ActiveTables, "a").rows) = 2
    /\ \E o \in Range(TGet(ActiveTables, "a").rows) :
           DGet(heap[o], "k") = IntV("2") /\ DGet(heap[o], "x") = StrV("ann")

\* C20: a DELETE on a table of the active database removes the rows whose
\* value of the WHERE column equals the WHERE value (None for a row without
\* the column; every row when there is no WHERE), keeps the other rows
\* unchanged and in their order, reports the number of rows removed, and
\* keeps the table's columns and its set of indexed columns.
C20_DeleteExact ==
    [][With(ParseOf(query'), LAMBDA p :
          (/\ p.fault = "" /\ p.command = "DELETE"
           /\ table_exists(databases[active_db].tables, p.details.table))
          => With(TGet(databases[active_db].tables, p.details.table), LAMBDA t :
             With(SelectSeq(t.rows, LAMBDA o :
                      /\ p.details.where # <<>>
                      /\ (IF DHas(heap[o], p.details.where[1].column)
                          THEN DGet(heap[o], p.details.where[1].column)
                          ELSE PyNone) # p.details.where[1].value),
                  LAMBDA others :
                 /\ fault' = ""
                 /\ active_db' = active_db
                 /\ table_exists(databases'[active_db].tables, p.details.table)
                 /\ TGet(databases'[active_db].tables, p.details.table).rows = others
                 /\ \A o \in Range(others) : heap'[o] = heap[o]
                 /\ TGet(databases'[active_db].tables, p.details.table).columns = t.columns
                 /\ DOMAIN TGet(databases'[active_db].tables, p.details.table).indexes
                        = DOMAIN t.indexes
                 /\ result' = <<ToString(Len(t.rows) - Len(others)) \o " row(s) deleted.">>)))]_vars

\* a DELETE on the column x has removed the row without x and kept the other
C20_Witness ==
    /\ query = <<"DELETE", "FROM", "a", "WHERE", "x", "=", "None">>
    /\ result = <<"1 row(s) deleted.">>
    /\ table_exists(ActiveTables, "a")
    /\ "k" \in DOMAIN TGet(ActiveTables, "a").indexes
    /\ Len(TGet(ActiveTables, "a").rows) = 1
    /\ \E o \in Range(TGet(ActiveTables, "a").rows) : DGet(heap[o], "x") = StrV("ann")

\* the column names of the sequence are distinct
Distinct(columns) ==
    \A i, j \in 1..Len(columns) : columns[i] = columns[j] => i = j

\* the step is an INSERT of values into a table of the active database
InsertsInto(p) ==
    /\ p.fault = "" /\ p.command = "INSERT" /\ "values" \in DOMAIN p.details
    /\ table_exists(databases[active_db].tables, p.details.table)

\* the effect C21 states for an INSERT of values into the table t
InsertEffect(p, t) ==
    With(Min(Len(p.details.values), Len(t.columns)), LAMBDA n :
        /\ fault' = ""
        /\ result' = <<"1 row inserted.">>
        /\ active_db' = active_db
        /\ table_exists(databases'[active_db].tables, p.details.table)
        /\ With(TGet(databases'[active_db].tables, p.details.table).rows, LAMBDA rows :
               /\ Len(rows) = Len(t.rows) + 1
               /\ SubSeq(rows, 1, Len(t.rows)) = t.rows
               /\ \A o \in Range(t.rows) : heap'[o] = heap[o]
               /\ Range(DKeys(heap'[rows[Len(rows)]])) = {t.columns[i] : i \in 1..n}
               /\ \A i \in 1..n :
                      DGet(heap'[rows[Len(rows)]], t.columns[i]) = p.details.values[i]))

C22_AddColumn ==
    [][With(ParseOf(query'), LAMBDA p :
          (/\ p.fault = "" /\ p.command = "ALTER_TABLE" /\ "column" \in DOMAIN p.details
           /\ table_exists(databases[active_db].tables, p.details.table))
          => With(TGet(databases[active_db].tables, p.details.table), LAMBDA t :
             With(p.details.column.name, LAMBDA c :
                 /\ fault' = ""
                 /\ active_db' = active_db
                 /\ table_exists(databases'[active_db].tables, p.details.table)
                 /\ TGet(databases'[active_db].tables, p.details.table).rows = t.rows
                 /\ DOMAIN TGet(databases'[active_db].tables, p.details.table).indexes
                        = DOMAIN t.indexes
                 /\ IF c \in Range(t.columns)
                    THEN /\ TGet(databases'[active_db].tables, p.details.table).columns
                                = t.columns
                         /\ \A o \in Range(t.rows) : heap'[o] = heap[o]
                    ELSE /\ TGet(databases'[active_db].tables, p.details.table).columns
                                = Append(t.columns, c)
                         /\ \A o \in Range(t.rows) :
                                /\ DHas(heap'[o], c) /\ DGet(heap'[o], c) = PyNone
                                /\ Range(DKeys(heap'[o])) = Range(DKeys(heap[o])) \cup {c}
                                /\ \A d \in Range(DKeys(heap[o])) \ {c} :
                                       DGet(heap'[o], d) = DGet(heap[o], d))))]_vars

\* ALTER TABLE a ADD COLUMN x has run on the indexed table a, whose row
\* reads None for x and still holds its k
C22_Witness ==
    /\ query = <<"ALTER", "TABLE", "a", "ADD", "COLUMN", "x", "TEXT">>
    /\ result = <<"Column 'x' added to 'a'.">>
    /\ table_exists(ActiveTables, "a")
    /\ TGet(ActiveTables, "a").columns = <<"k", "x">>
    /\ "k" \in DOMAIN TGet(ActiveTables, "a").indexes
    /\ \E o \in Range(TGet(ActiveTables, "a").rows) :
           heap[o] = << <<"k", IntV("1")>>, <<"x", PyNone>> >>

\* ---- runs on tables a (x) and b (y) joined with ON written either way
OnSchemaStatement ==
    \E q \in OnSchemaQueries : query' = q /\ Step(q, JoinMaxRows, JoinMaxPending)
OnDataStatement ==
    \E q \in JoinDataQueries : query' = q /\ Step(q, JoinMaxRows, JoinMaxPending)
OnSelectStatement ==
    \E q \in OnSelectQueries : query' = q /\ Step(q, JoinMaxRows, JoinMaxPending)
OnCommitStatement ==
    \E q \in CommitQueries : query' = q /\ Step(q, JoinMaxRows, JoinMaxPending)

NextOn ==
    \/ OnSchemaStatement
    \/ OnDataStatement
    \/ OnSelectStatement
    \/ OnCommitStatement

SpecOn == Init /\ [][NextOn]_vars

\* C23: in every state with tables a (column x) and b (column y), the join
\* of a with b returns the same lines with ON a.x = b.y as with
\* ON b.y = a.x.
C23_OnOrder ==
    (table_exists(ActiveTables, "a") /\ table_exists(ActiveTables, "b"))
        => engine_execute(World, ParseOf(OnQuery)).lines
               = engine_execute(World, ParseOf(OnQuerySwapped)).lines

\* the join with ON a.x = b.y lists the pairs with a's x equal to b's y
\* under the header a.x | b.y
OnWrittenInOrder ==
    (query = OnQuery /\ fault = "" /\ Len(result) > 1)
        => /\ result[1] = "a.x | b.y"
           /\ \A i \in 2..Len(result) : result[i] \in {"1 | 1", "2 | 2"}

\* ---- runs with restarts: a new SQLExecutor over the same data directory
\* the names of the databases of the runs, in the order of sorted()
SortedNames == <<"d2", "d3", "default">>

\* SQLExecutor.__init__ up to the choice of the active database: a storage
\* is loaded from every .dat file, in sorted order, and the database default
\* is made when there is no file
Opened(dir) ==
    LET f[i \in 0..Len(SortedNames)] ==
            IF i = 0
            THEN [databases |-> <<>>, files |-> dir, heap |-> <<>>, lsm |-> <<>>,
                  active |-> "default"]
            ELSE IF SortedNames[i] \in DOMAIN dir
                 THEN _ensure_database(f[i - 1], SortedNames[i])
                 ELSE f[i - 1]
    IN  IF DOMAIN f[Len(SortedNames)].databases = {}
        THEN _ensure_database(f[Len(SortedNames)], "default")
        ELSE f[Len(SortedNames)]

\* SQLExecutor.__init__ with default as the active database whatever the
\* files are
SQLExecutor_init_default(dir) == Opened(dir)

\* SQLExecutor.__init__ over the data directory dir
SQLExecutor_init(dir) ==
    With(Opened(dir), LAMBDA w :
        [w EXCEPT !.active =
            IF "default" \in DOMAIN w.databases THEN "default"
            ELSE SortedNames[CHOOSE i \in 1..Len(SortedNames) :
                     /\ SortedNames[i] \in DOMAIN w.databases
                     /\ \A j \in 1..(i - 1) : SortedNames[j] \notin DOMAIN w.databases]])

\* the engine is stopped and a new one is started over the data directory
Restart ==
    /\ \E w \in {SQLExecutor_init(files)} :
           /\ databases' = w.databases
           /\ files' = w.files
           /\ heap' = w.heap
           /\ lsm' = w.lsm
           /\ active_db' = w.active
    /\ query' = <<>>
    /\ command' = ""
    /\ result' = <<>>
    /\ fault' = ""
    /\ mutations' = 0
    /\ seen' = <<>>
    /\ issued' = <<>>
    /\ stage' = 0
    /\ UNCHANGED blob

RestartDatabaseStatement ==
    \E q \in RestartDatabaseQueries : query' = q /\ Step(q, MaxRows, MaxPending)
RestartTableStatement ==
    \E q \in RestartTableQueries : query' = q /\ Step(q, MaxRows, MaxPending)
RestartCommitStatement ==
    \E q \in CommitQueries : query' = q /\ Step(q, MaxRows, MaxPending)

NextRestart ==
    \/ RestartDatabaseStatement
    \/ RestartTableStatement
    \/ RestartCommitStatement
    \/ Restart

SpecRestart == Init /\ [][NextRestart]_vars

\* C24: in every state, every name in databases() is in databases() of a
\* new engine started over the same data directory.
C24_SurviveRestart ==
    DOMAIN databases \subseteq DOMAIN SQLExecutor_init(files).databases

\* C25: in every state, from the start of the engine over any files
\* through any statements, active_database() is a member of databases().
C25_ActiveIsDatabase == active_db \in DOMAIN databases

\* an engine started over the files of d2 and d3, without a file of
\* default: the active database is d2
C25_Witness ==
    /\ query = <<>>
    /\ DOMAIN databases = {"d2", "d3"}
    /\ DOMAIN files = {"d2", "d3"}
    /\ active_db = "d2"

\* C26: in every reachable state, every key of every stored row is one of
\* the columns describe() lists for the row's table.
C26_RowKeysAreColumns ==
    \A d \in DOMAIN databases :
        \A i \in 1..Len(databases[d].tables) :
            \A o \in Range(databases[d].tables[i].rows) :
                Range(DKeys(heap[o])) \subseteq Range(databases[d].tables[i].columns)

====
